---- MODULE Spec2Model ----
(***************************************************************************)
(* A model of the build-clang multi-stage bootstrap driver:                *)
(*   cmd_line_args.parse_args        -> ParseArgs                          *)
(*   ClangBuilder.init_stages / run  -> RunInitStages, RunSkipStage, ...   *)
(*   ClangBuildStage.build           -> StageBuildBegin, RunCmake, ...     *)
(*   ClangBuildStage.get_llvm_cmake_variables and friends -> operators     *)
(* Paths and names are strings; lists of names and flag lists are          *)
(* sequences of strings; an absent (None) string is "".                    *)
(***************************************************************************)
EXTENDS Integers, Sequences, FiniteSets, TLC

\* ------------------------------------------------------------------------
\* Bounds of the model
\* ------------------------------------------------------------------------

\* Largest --min_stage / --max_stage value tried on the command line.
MaxStageArg == 7

\* ------------------------------------------------------------------------
\* constants.py
\* ------------------------------------------------------------------------

NUM_NON_LTO_STAGES == 3

GIT_SHA1_PREFIX_LENGTH == 8

YB_LLVM_ARCHIVE_NAME_PREFIX == "yb-llvm-"

BUILD_DIR_SUFFIX == "build"

NAME_COMPONENT_SEPARATOR == "-"

BUILD_DIR_SUFFIX_WITH_SEPARATOR == NAME_COMPONENT_SEPARATOR \o BUILD_DIR_SUFFIX

DEFAULT_INSTALL_PARENT_DIR == "/opt/yb-build/llvm"

LLVM_PROJECT_CLONE_REL_PATH == "src/llvm-project"

GIT_SHA1_PLACEHOLDER_STR == "GIT_SHA1_PLACEHOLDER"

\* ------------------------------------------------------------------------
\* Inputs of a run
\* ------------------------------------------------------------------------

\* Encoding of an omitted --max_stage (argparse default None).
NoStage == -1

\* --lto / --no_lto / neither, and the same for --pgo.
TriState == {"unset", "on", "off"}

\* Values of --llvm_version after LLVM_VERSION_MAP substitution.
LlvmVersions ==
    { "9.0.1", "10.0.1", "12.0.1-yb-2", "13.0.1-yb-2", "14.0.6-yb-2", "15.0.7-yb-1",
      "16.0.6-yb-3", "18.1.8-yb-1" }

\* LLVM_VERSION_MAP[default of --llvm_version]
DEFAULT_LLVM_VERSION == "18.1.8-yb-1"

\* Facts reported by sys_detection and platform.machine().
Platforms ==
    { [os |-> "linux", short_os |-> "almalinux8", arch |-> "x86_64"],
      [os |-> "linux", short_os |-> "amzn2", arch |-> "aarch64"],
      [os |-> "macos", short_os |-> "macos13", arch |-> "arm64"] }

\* Output of `git rev-parse HEAD`, one character per element.
GitSha1 == <<"a", "b", "c", "d", "e", "f", "1", "2", "3", "4", "5", "6", "7", "8", "9", "0">>

\* Values of --top_dir_suffix; "" when the option is omitted.
TopDirSuffixes == {"", "dbg"}

\* Values of --existing_build_dir; "" when the option is omitted.  The names
\* after the first are, in turn: two that are well formed below the install
\* parent directory, one well formed below another directory, one without
\* the '-build' suffix, one without the 'yb-llvm-' prefix, one with an empty
\* tag, and the name in which prefix and suffix overlap.
ExistingBuildDirs ==
    { "",
      "/opt/yb-build/llvm/yb-llvm-v17.0.6-1690000000-0123abcd-build",
      "/opt/yb-build/llvm/yb-llvm-v16-build-build",
      "/data/yb-llvm-v17.0.6-1690000000-0123abcd-build",
      "/opt/yb-build/llvm/yb-llvm-v17.0.6-1690000000-0123abcd",
      "/opt/yb-build/llvm/llvm-v17.0.6-build",
      "/opt/yb-build/llvm/yb-llvm--build",
      "/opt/yb-build/llvm/yb-llvm-build" }

\* Values of --upload_earlier_build; "" when the option is omitted.
\* The second name lacks the 'yb-llvm-' prefix.
EarlierBuilds ==
    {"", "/opt/yb-build/llvm/yb-llvm-v18.1.8-yb-1-1690000000-0123abcd", "/data/clang-18-install"}

CliArgs ==
    [ lto : TriState,
      pgo : TriState,
      min_stage : 0..MaxStageArg,
      max_stage : {NoStage} \cup (0..MaxStageArg),
      skip_build : BOOLEAN,
      no_compiler_rt : BOOLEAN,
      use_compiler_wrapper : BOOLEAN,
      with_openmp : BOOLEAN,
      llvm_version : LlvmVersions,
      skip_auto_suffix : BOOLEAN,
      top_dir_suffix : TopDirSuffixes,
      existing_build_dir : ExistingBuildDirs,
      upload_earlier_build : EarlierBuilds,
      reuse_tarball : BOOLEAN,
      skip_upload : BOOLEAN ]

VARIABLES
    pc,         \* position of the process in parse_args / ClangBuilder.run
    cli,        \* the command line as given
    platform,   \* the machine the run happens on
    caller_env, \* BUILD_CLANG_* environment variables the tool is started with
    args,       \* argparse namespace after parse_args
    build_conf, \* ClangBuildConf
    stages,     \* ClangBuilder.stages
    idx,        \* position of the `for stage in self.stages` loop (1-based)
    step,       \* position inside ClangBuildStage.build (index into its steps)
    cwd,        \* process working directory
    env,        \* BUILD_CLANG_* environment variables ("" = not set)
    saved,      \* what ChangeDir / EnvVarContext saved on entry
    log,        \* external commands and file copies performed so far
    fs,         \* the file system: directories and files below the paths of the run
    atexit      \* directory remove_dir_with_placeholder_in_name is registered for ("" = none)

vars ==
    <<pc, cli, platform, caller_env, args, build_conf, stages, idx, step, cwd, env, saved, log, fs, atexit>>

\* ------------------------------------------------------------------------
\* helpers
\* ------------------------------------------------------------------------

\* os.path.join for two components
PathJoin(a, b) == a \o "/" \o b

RECURSIVE JoinStr(_, _)
\* sep.join(seq)
JoinStr(sep, seq) ==
    IF seq = <<>> THEN ""
    ELSE IF Len(seq) = 1 THEN seq[1]
    ELSE seq[1] \o sep \o JoinStr(sep, Tail(seq))

RECURSIVE SelectNonEmpty(_)
\* [component for component in components if component]
SelectNonEmpty(seq) ==
    IF seq = <<>> THEN <<>>
    ELSE IF Head(seq) = "" THEN SelectNonEmpty(Tail(seq))
    ELSE <<Head(seq)>> \o SelectNonEmpty(Tail(seq))

\* s.startswith(prefix)
StartsWith(s, prefix) ==
    Len(s) >= Len(prefix) /\ SubSeq(s, 1, Len(prefix)) = prefix

\* s.endswith(suffix)
EndsWith(s, suffix) ==
    Len(s) >= Len(suffix) /\ SubSeq(s, Len(s) - Len(suffix) + 1, Len(s)) = suffix

\* `part in s`
Contains(s, part) ==
    \E i \in 1..(Len(s) - Len(part) + 1) : SubSeq(s, i, i + Len(part) - 1) = part

\* the positions of '/' in a path
SlashPositions(path) == {i \in 1..Len(path) : SubSeq(path, i, i) = "/"}

\* position of the last '/' of a path, 0 when it has none
LastSlash(path) ==
    LET slashes == SlashPositions(path)
    IN IF slashes = {} THEN 0
       ELSE CHOOSE i \in slashes : \A j \in slashes : j <= i

\* os.path.basename
Basename(path) == SubSeq(path, LastSlash(path) + 1, Len(path))

\* os.path.dirname of an absolute path below the root
Dirname(path) == SubSeq(path, 1, LastSlash(path) - 1)

\* path is dir_path or lies below it
IsUnder(path, dir_path) == path = dir_path \/ StartsWith(path, dir_path \o "/")

\* the path with its leading old_dir replaced by new_dir
Rebase(path, old_dir, new_dir) ==
    IF IsUnder(path, old_dir)
    THEN new_dir \o SubSeq(path, Len(old_dir) + 1, Len(path))
    ELSE path

\* int(version.split('.')[0]) for the versions of LlvmVersions
get_major_version(version) ==
    CASE version = "9.0.1" -> 9
      [] version = "10.0.1" -> 10
      [] version = "12.0.1-yb-2" -> 12
      [] version = "13.0.1-yb-2" -> 13
      [] version = "14.0.6-yb-2" -> 14
      [] version = "15.0.7-yb-1" -> 15
      [] version = "16.0.6-yb-3" -> 16
      [] version = "18.1.8-yb-1" -> 18

is_linux == platform.os = "linux"

is_macos == platform.os = "macos"

\* ------------------------------------------------------------------------
\* The file system: fs.dirs is the set of directories that were made by name,
\* fs.files maps the path of every file to what it holds; every directory
\* above one of these paths exists as well.  The content of a file is
\* the number of the stage build that produced it (0 for a file that no stage
\* build produced); link is the target of a symbolic link and "" for a
\* regular file.
\* ------------------------------------------------------------------------

EmptyFiles == [p \in {} |-> [content |-> 0, link |-> ""]]

FilePaths(f) == DOMAIN f.files

\* os.path.isdir
IsDir(f, path) ==
    \/ \E d \in f.dirs : IsUnder(d, path)
    \/ \E p \in FilePaths(f) : p # path /\ IsUnder(p, path)

\* os.path.exists
PathExists(f, path) == path \in FilePaths(f) \/ IsDir(f, path)

\* the directory holds no entry
IsEmptyDir(f, dir_path) ==
    /\ \A d \in f.dirs : d = dir_path \/ ~IsUnder(d, dir_path)
    /\ \A p \in FilePaths(f) : ~IsUnder(p, dir_path)

\* mkdir_p
mkdir_p(f, dir_path) == [f EXCEPT !.dirs = @ \cup {dir_path}]

\* a command creates or overwrites the file at path, making the directories above it
WriteFile(f, path, content, link) ==
    [f EXCEPT !.files = (path :> [content |-> content, link |-> link]) @@ @]

RECURSIVE WriteFiles(_, _, _, _)
\* a command writes the listed files (records of rel and link) below top_dir
WriteFiles(f, top_dir, outputs, content) ==
    IF outputs = {} THEN f
    ELSE LET o == CHOOSE x \in outputs : TRUE
         IN WriteFiles(WriteFile(f, PathJoin(top_dir, o.rel), content, o.link),
                       top_dir, outputs \ {o}, content)

\* rm -rf
rm_rf(f, dir_path) ==
    [ dirs |-> {d \in f.dirs : ~IsUnder(d, dir_path)},
      files |-> [p \in {q \in FilePaths(f) : ~IsUnder(q, dir_path)} |-> f.files[p]] ]

\* os.rename of a directory fails: the source is missing, or the destination is
\* a file or a directory that is not empty
RenameFails(f, old_dir, new_dir) ==
    \/ ~IsDir(f, old_dir)
    \/ new_dir \in FilePaths(f)
    \/ (IsDir(f, new_dir) /\ ~IsEmptyDir(f, new_dir))

\* os.rename of a directory that succeeds: an empty destination directory is replaced
Rename(f, old_dir, new_dir) ==
    [ dirs |-> {Rebase(d, old_dir, new_dir) : d \in f.dirs},
      files |-> [p \in {Rebase(q, old_dir, new_dir) : q \in FilePaths(f)} |->
                    f.files[CHOOSE q \in FilePaths(f) : Rebase(q, old_dir, new_dir) = p]] ]

\* ------------------------------------------------------------------------
\* clang_build_conf.py
\* ------------------------------------------------------------------------

\* time.time() at the construction of the configuration
UNIX_TIMESTAMP == "1700000000"

\* ClangBuildConf.__init__: the ValueError raised on the basename of
\* existing_build_dir; "" when nothing is raised
ExistingBuildDirError(existing_build_dir) ==
    LET build_dir_basename == Basename(existing_build_dir)
        invalid_msg_prefix ==
            "Invalid existing build directory basename: '" \o build_dir_basename \o "', "
    IN IF existing_build_dir = "" THEN ""
       ELSE IF ~EndsWith(build_dir_basename, BUILD_DIR_SUFFIX_WITH_SEPARATOR)
       THEN invalid_msg_prefix \o "does not end with '"
                \o BUILD_DIR_SUFFIX_WITH_SEPARATOR \o "'."
       ELSE IF ~StartsWith(build_dir_basename, YB_LLVM_ARCHIVE_NAME_PREFIX)
       THEN invalid_msg_prefix \o "does not start with '"
                \o YB_LLVM_ARCHIVE_NAME_PREFIX \o "'."
       ELSE ""

TagOfBasenameWithSuffix(build_dir_basename) ==
    SubSeq(build_dir_basename, Len(YB_LLVM_ARCHIVE_NAME_PREFIX) + 1, Len(build_dir_basename))

\* build_dir_basename[len(YB_LLVM_ARCHIVE_NAME_PREFIX):-len(BUILD_DIR_SUFFIX_WITH_SEPARATOR)]
TagOfBasename(build_dir_basename) ==
    SubSeq(build_dir_basename,
           Len(YB_LLVM_ARCHIVE_NAME_PREFIX) + 1,
           Len(build_dir_basename) - Len(BUILD_DIR_SUFFIX_WITH_SEPARATOR))

\* ClangBuildConf.__init__ when it raises nothing
ClangBuildConf(a) ==
    [ install_parent_dir |-> a.install_parent_dir,
      version |-> a.llvm_version,
      llvm_major_version |-> get_major_version(a.llvm_version),
      user_specified_suffix |-> a.top_dir_suffix,
      skip_auto_suffix |-> a.skip_auto_suffix,
      git_sha1_prefix |-> "",
      clean_build |-> a.clean,
      use_compiler_wrapper |-> a.use_compiler_wrapper,
      use_compiler_rt |-> ~a.no_compiler_rt,
      unix_timestamp_for_suffix |-> IF a.existing_build_dir # "" THEN "" ELSE UNIX_TIMESTAMP,
      existing_build_dir |-> a.existing_build_dir,
      tag_override |-> IF a.existing_build_dir # ""
                       THEN TagOfBasename(Basename(a.existing_build_dir))
                       ELSE "",
      openmp_enabled |-> a.with_openmp ]

get_tagIgnoringSkipAutoSuffix(conf) ==
    IF conf.tag_override # "" THEN conf.tag_override
    ELSE LET components == SelectNonEmpty(<<
                 conf.unix_timestamp_for_suffix,
                 IF conf.git_sha1_prefix # "" THEN conf.git_sha1_prefix
                 ELSE GIT_SHA1_PLACEHOLDER_STR,
                 IF conf.use_compiler_rt THEN "" ELSE "no-compiler-rt",
                 conf.user_specified_suffix,
                 platform.short_os,
                 platform.arch >>)
         IN "v" \o conf.version
                \o NAME_COMPONENT_SEPARATOR \o JoinStr(NAME_COMPONENT_SEPARATOR, components)

get_tag(conf) ==
    IF conf.tag_override # "" THEN conf.tag_override
    ELSE LET components == SelectNonEmpty(<<
                 conf.unix_timestamp_for_suffix,
                 IF conf.git_sha1_prefix # "" THEN conf.git_sha1_prefix
                 ELSE GIT_SHA1_PLACEHOLDER_STR,
                 IF conf.use_compiler_rt THEN "" ELSE "no-compiler-rt",
                 conf.user_specified_suffix,
                 platform.short_os,
                 platform.arch >>)
             top_dir_suffix ==
                 IF ~conf.skip_auto_suffix
                 THEN NAME_COMPONENT_SEPARATOR \o JoinStr(NAME_COMPONENT_SEPARATOR, components)
                 ELSE ""
         IN "v" \o conf.version \o top_dir_suffix

get_install_dir_basename(conf) == YB_LLVM_ARCHIVE_NAME_PREFIX \o get_tag(conf)

get_llvm_build_parent_dir(conf) ==
    PathJoin(conf.install_parent_dir,
             get_install_dir_basename(conf) \o BUILD_DIR_SUFFIX_WITH_SEPARATOR)

get_final_install_dir(conf) ==
    PathJoin(conf.install_parent_dir, get_install_dir_basename(conf))

get_llvm_build_info_dir(conf) ==
    PathJoin(get_final_install_dir(conf), "etc/yb-llvm-build-info")

get_llvm_project_clone_dir(conf) ==
    PathJoin(get_llvm_build_parent_dir(conf), LLVM_PROJECT_CLONE_REL_PATH)

\* git_sha1[:GIT_SHA1_PREFIX_LENGTH]
Sha1PrefixWholeRevision(git_sha1) == JoinStr("", git_sha1)

Sha1Prefix(git_sha1) ==
    JoinStr("", SubSeq(git_sha1, 1,
                       IF Len(git_sha1) < GIT_SHA1_PREFIX_LENGTH THEN Len(git_sha1)
                       ELSE GIT_SHA1_PREFIX_LENGTH))

\* ClangBuildConf.set_git_sha1: the configuration after the call
set_git_sha1(conf, git_sha1) ==
    [conf EXCEPT !.git_sha1_prefix = Sha1Prefix(git_sha1)]

\* ------------------------------------------------------------------------
\* cmd_line_args.py
\* ------------------------------------------------------------------------

\* args.lto after `if args.lto is None: args.lto = True`
DefaultLto(c) == IF c.lto = "unset" THEN TRUE ELSE c.lto = "on"

\* args.pgo after `if args.pgo is None: args.pgo = args.lto`
DefaultPgo(c) == IF c.pgo = "unset" THEN DefaultLto(c) ELSE c.pgo = "on"

\* max_allowed_stage = NUM_NON_LTO_STAGES + (3 if args.pgo else 1 if args.lto else 0)
max_allowed_stage(lto, pgo) ==
    NUM_NON_LTO_STAGES + (IF pgo THEN 3 ELSE IF lto THEN 1 ELSE 0)

\* args.max_stage after `if args.max_stage is None: args.max_stage = max_allowed_stage`,
\* which happens only `if not args.skip_build`
DefaultMaxStage(c, lto, pgo) ==
    IF ~c.skip_build /\ c.max_stage = NoStage
    THEN max_allowed_stage(lto, pgo)
    ELSE c.max_stage

\* args.skip_auto_suffix after `if args.existing_build_dir: args.skip_auto_suffix = True`
SkipAutoSuffix(c) == c.skip_auto_suffix \/ c.existing_build_dir # ""

PgoWithoutLtoAccepted(lto, pgo) == ""

\* `if args.pgo and not args.lto: raise ValueError(...)`; "" when nothing is raised
CheckPgoRequiresLto(lto, pgo) ==
    IF pgo /\ ~lto THEN "PGO build requires LTO enabled" ELSE ""

\* the three range checks under `if not args.skip_build`; "" when nothing is raised
CheckStageRange(skip_build, min_stage, max_stage, max_allowed) ==
    IF skip_build THEN ""
    ELSE IF min_stage < 1 THEN "--min_stage value too low"
    ELSE IF max_stage > max_allowed THEN "--max_stage value too high"
    ELSE IF min_stage > max_stage
         THEN "--min-stage value is greater than --max-stage value"
    ELSE ""

\* parse_args: the namespace it returns and the ValueError it raises ("" = none)
parse_args(c) ==
    LET lto == DefaultLto(c)
        pgo == DefaultPgo(c)
        max_allowed == max_allowed_stage(lto, pgo)
        pgo_error == CheckPgoRequiresLto(lto, pgo)
        max_stage == DefaultMaxStage(c, lto, pgo)
        range_error == CheckStageRange(c.skip_build, c.min_stage, max_stage, max_allowed)
        conf_error == ExistingBuildDirError(c.existing_build_dir)
    IN [ error |-> IF pgo_error # "" THEN pgo_error
                   ELSE IF range_error # "" THEN range_error
                   ELSE conf_error,
         args |-> [ lto |-> lto,
                    pgo |-> pgo,
                    min_stage |-> c.min_stage,
                    max_stage |-> IF pgo_error # "" THEN c.max_stage ELSE max_stage,
                    skip_build |-> c.skip_build,
                    install_parent_dir |-> DEFAULT_INSTALL_PARENT_DIR,
                    llvm_version |-> c.llvm_version,
                    top_dir_suffix |-> c.top_dir_suffix,
                    skip_auto_suffix |-> SkipAutoSuffix(c),
                    clean |-> FALSE,
                    use_compiler_wrapper |-> c.use_compiler_wrapper,
                    no_compiler_rt |-> c.no_compiler_rt,
                    with_openmp |-> c.with_openmp,
                    existing_build_dir |-> c.existing_build_dir,
                    upload_earlier_build |-> c.upload_earlier_build,
                    reuse_tarball |-> c.reuse_tarball,
                    skip_upload |-> c.skip_upload ] ]

\* ------------------------------------------------------------------------
\* clang_build_stage.py: the stage descriptor
\* ------------------------------------------------------------------------

ClangBuildStageFinalPrefixForLto(conf, stage_number, prev_stage, is_last_non_lto_stage, lto) ==
    LET stage_base_dir ==
            PathJoin(get_llvm_build_parent_dir(conf), "stage-" \o ToString(stage_number))
    IN [ stage_number |-> stage_number,
         prev_stage |-> prev_stage,
         stage_base_dir |-> stage_base_dir,
         cmake_build_dir |-> PathJoin(stage_base_dir, "build"),
         compiler_invocations_top_dir |-> PathJoin(stage_base_dir, "compiler_invocations"),
         install_prefix |-> IF is_last_non_lto_stage \/ lto THEN get_final_install_dir(conf)
                            ELSE PathJoin(stage_base_dir, "installed"),
         is_last_non_lto_stage |-> is_last_non_lto_stage,
         lto |-> lto ]

\* ClangBuildStage.__init__; prev_stage is the position of the predecessor in
\* ClangBuilder.stages, 0 for None
ClangBuildStage(conf, stage_number, prev_stage, is_last_non_lto_stage, lto) ==
    LET stage_base_dir ==
            PathJoin(get_llvm_build_parent_dir(conf), "stage-" \o ToString(stage_number))
    IN [ stage_number |-> stage_number,
         prev_stage |-> prev_stage,
         stage_base_dir |-> stage_base_dir,
         cmake_build_dir |-> PathJoin(stage_base_dir, "build"),
         compiler_invocations_top_dir |-> PathJoin(stage_base_dir, "compiler_invocations"),
         install_prefix |-> IF is_last_non_lto_stage THEN get_final_install_dir(conf)
                            ELSE PathJoin(stage_base_dir, "installed"),
         is_last_non_lto_stage |-> is_last_non_lto_stage,
         lto |-> lto ]

\* the assertion of ClangBuildStage.__init__ on the predecessor
PrevStageAssertion(stage_list, stage_number, prev_stage) ==
    prev_stage # 0 => stage_list[prev_stage].stage_number # stage_number

is_first_stage(stage) == stage.prev_stage = 0

\* ------------------------------------------------------------------------
\* clang_builder.py: init_stages
\* ------------------------------------------------------------------------

\* lto_values of one iteration of the outer loop
LtoValues(stage_number, lto_arg) ==
    IF stage_number = NUM_NON_LTO_STAGES /\ lto_arg THEN <<FALSE, TRUE>> ELSE <<FALSE>>

PrevStageFirst(stage_list) == IF stage_list # <<>> THEN 1 ELSE 0

\* `self.stages[-1] if self.stages else None`
PrevStageRef(stage_list) == IF stage_list # <<>> THEN Len(stage_list) ELSE 0

RECURSIVE InitStagesLoop(_, _, _, _, _, _)
\* the two nested loops of init_stages: stage_number is the outer loop variable,
\* k the position in lto_values, effective_stage_number the running counter
InitStagesLoop(conf, lto_arg, stage_number, k, effective_stage_number, stage_list) ==
    IF stage_number > NUM_NON_LTO_STAGES THEN stage_list
    ELSE IF k > Len(LtoValues(stage_number, lto_arg))
    THEN InitStagesLoop(conf, lto_arg, stage_number + 1, 1, effective_stage_number, stage_list)
    ELSE LET lto == LtoValues(stage_number, lto_arg)[k]
             new_stage == ClangBuildStage(
                 conf, effective_stage_number, PrevStageRef(stage_list),
                 (stage_number = NUM_NON_LTO_STAGES) /\ ~lto, lto)
         IN InitStagesLoop(conf, lto_arg, stage_number, k + 1,
                           effective_stage_number + 1, Append(stage_list, new_stage))

\* ClangBuilder.init_stages: the value of self.stages afterwards
init_stages(a, conf) == InitStagesLoop(conf, a.lto, 1, 1, 1, <<>>)

\* no assertion of ClangBuildStage.__init__ failed while the list was built
InitStagesAssertionsHold(stage_list) ==
    \A i \in 1..Len(stage_list) :
        PrevStageAssertion(stage_list, stage_list[i].stage_number, stage_list[i].prev_stage)

\* ------------------------------------------------------------------------
\* clang_build_stage.py: enabled components and CMake options.
\* A dictionary is a function on the set of its keys.  A raw option value is
\* tagged bool or str; a string value that the code makes by joining a list
\* (';'.join, ' '.join) is kept as the sequence of the joined items, and a
\* plain string is the one-item sequence.
\* ------------------------------------------------------------------------

BoolOpt(b) == [kind |-> "bool", b |-> b, s |-> <<>>]

StrOpt(str) == [kind |-> "str", b |-> FALSE, s |-> <<str>>]

ListOpt(items) == [kind |-> "str", b |-> FALSE, s |-> items]

EmptyDict == [k \in {} |-> <<>>]

\* d.update(e)
DictUpdate(d, e) == e @@ d

\* to_cmake_option
to_cmake_option(v) ==
    IF v.kind = "str" THEN v.s
    ELSE IF v.b THEN <<"ON">> ELSE <<"OFF">>

\* the order Python's sorted() puts the component names in
ComponentOrder ==
    <<"clang", "clang-tools-extra", "compiler-rt", "libcxx", "libcxxabi",
      "libunwind", "lld", "lldb", "openmp">>

ComponentRank(name) == CHOOSE i \in 1..Len(ComponentOrder) : ComponentOrder[i] = name

RECURSIVE InsertSorted(_, _)
InsertSorted(name, sorted_seq) ==
    IF sorted_seq = <<>> THEN <<name>>
    ELSE IF ComponentRank(name) <= ComponentRank(Head(sorted_seq))
    THEN <<name>> \o sorted_seq
    ELSE <<Head(sorted_seq)>> \o InsertSorted(name, Tail(sorted_seq))

RECURSIVE Sorted(_)
\* sorted(seq)
Sorted(seq) ==
    IF seq = <<>> THEN <<>> ELSE InsertSorted(Head(seq), Sorted(Tail(seq)))

RuntimesAlsoOnFirstStage(stage, conf) ==
    <<"libunwind", "libcxx", "libcxxabi", "compiler-rt">>
    \o (IF stage.is_last_non_lto_stage /\ conf.openmp_enabled THEN <<"openmp">> ELSE <<>>)

\* ClangBuildStage.get_enabled_runtimes
get_enabled_runtimes(stage, conf) ==
    <<"libunwind">>
    \o (IF ~is_first_stage(stage) THEN <<"libcxx", "libcxxabi", "compiler-rt">> ELSE <<>>)
    \o (IF stage.is_last_non_lto_stage /\ conf.openmp_enabled THEN <<"openmp">> ELSE <<>>)

get_enabled_projectsWithLldbOnMacos(stage, conf) ==
    Sorted(
        <<"clang", "lld">>
        \o (IF conf.llvm_major_version <= 15 THEN get_enabled_runtimes(stage, conf) ELSE <<>>)
        \o (IF stage.is_last_non_lto_stage /\ ~stage.lto
            THEN <<"clang-tools-extra">>
                 \o (IF conf.llvm_major_version >= 10 THEN <<"lldb">> ELSE <<>>)
            ELSE <<>>))

\* ClangBuildStage.get_enabled_projects
get_enabled_projects(stage, conf) ==
    Sorted(
        <<"clang", "lld">>
        \o (IF conf.llvm_major_version <= 15 THEN get_enabled_runtimes(stage, conf) ELSE <<>>)
        \o (IF stage.is_last_non_lto_stage /\ ~stage.lto
            THEN <<"clang-tools-extra">>
                 \o (IF conf.llvm_major_version >= 10
                        /\ ~(conf.llvm_major_version >= 13 /\ is_macos)
                     THEN <<"lldb">> ELSE <<>>)
            ELSE <<>>))

\* get_rpath_flag
get_rpath_flag(path) == "-Wl,-rpath=" \o path

\* directory of compiler_wrapper.py
COMPILER_WRAPPER_BASE_DIR == "/build-clang/src/build_clang"

\* compiler_wrapper.get_cmake_args_for_compiler_wrapper
get_cmake_args_for_compiler_wrapper ==
    [ CMAKE_C_COMPILER |-> StrOpt(PathJoin(COMPILER_WRAPPER_BASE_DIR, "compiler_wrapper_cc.py")),
      CMAKE_CXX_COMPILER |-> StrOpt(PathJoin(COMPILER_WRAPPER_BASE_DIR, "compiler_wrapper_cxx.py")) ]

\* devtoolset.find_latest_gcc on a machine that has the compilers in /usr/bin
find_latest_gcc ==
    IF is_linux /\ platform.short_os = "amzn2"
    THEN <<"/usr/bin/gcc11-gcc", "/usr/bin/gcc11-g++">>
    ELSE <<"/usr/bin/gcc", "/usr/bin/g++">>

get_compilersOfOwnPrefix(stage, stage_list) ==
    IF stage.stage_number = 1 THEN find_latest_gcc
    ELSE << PathJoin(stage.install_prefix, "bin/clang"),
            PathJoin(stage.install_prefix, "bin/clang++") >>

\* ClangBuildStage.get_compilers
get_compilers(stage, stage_list) ==
    IF stage.stage_number = 1 THEN find_latest_gcc
    ELSE LET prev_stage_install_prefix == stage_list[stage.prev_stage].install_prefix
         IN << PathJoin(prev_stage_install_prefix, "bin/clang"),
               PathJoin(prev_stage_install_prefix, "bin/clang++") >>

SanitizerCxxAbiFromStageTwo(stage) == stage.stage_number >= 2

\* `if self.stage_number >= 3:` guarding the SANITIZER_* / CLANG_DEFAULT_RTLIB update
SanitizerCxxAbiStage(stage) == stage.stage_number >= 3

ExtraRpathFlagsOfOwnPrefix(stage, stage_list, conf) ==
    LET os_specific_lib_dir == "lib/" \o platform.arch \o "-unknown-linux-gnu"
    IN IF stage.stage_number >= 3 /\ is_linux /\ conf.llvm_major_version >= 15
       THEN <<get_rpath_flag("\\$ORIGIN/../" \o os_specific_lib_dir)>>
            \o (IF conf.llvm_major_version >= 16
                THEN <<get_rpath_flag(PathJoin(stage.install_prefix, os_specific_lib_dir))>>
                ELSE <<>>)
       ELSE <<>>

\* get_llvm_cmake_variables: the list extra_rpath_flags
ExtraRpathFlags(stage, stage_list, conf) ==
    LET os_specific_lib_dir == "lib/" \o platform.arch \o "-unknown-linux-gnu"
    IN IF stage.stage_number >= 3 /\ is_linux /\ conf.llvm_major_version >= 15
       THEN <<get_rpath_flag("\\$ORIGIN/../" \o os_specific_lib_dir)>>
            \o (IF conf.llvm_major_version >= 16
                THEN <<get_rpath_flag(PathJoin(stage_list[stage.prev_stage].install_prefix,
                                               os_specific_lib_dir))>>
                ELSE <<>>)
       ELSE <<>>

\* ClangBuildStage.get_llvm_cmake_variables
get_llvm_cmake_variables(stage, stage_list, conf) ==
    LET major == conf.llvm_major_version
        n == stage.stage_number
        first == is_first_stage(stage)
        on_linux == is_linux
        \* `vars['CLANG_DEFAULT_CXX_STDLIB'] = 'libc++'` on the first dictionary
        vars_first == IF ~first THEN [CLANG_DEFAULT_CXX_STDLIB |-> StrOpt("libc++")]
                      ELSE EmptyDict
        \* `vars = dict(...)` binds vars to a new dictionary; vars_first is dropped
        vars_dict ==
            [ LLVM_ENABLE_PROJECTS |-> ListOpt(get_enabled_projects(stage, conf)),
              CMAKE_INSTALL_PREFIX |-> StrOpt(stage.install_prefix),
              CMAKE_BUILD_TYPE |-> StrOpt("Release"),
              LLVM_TARGETS_TO_BUILD |-> StrOpt("X86;AArch64"),
              BUILD_SHARED_LIBS |-> BoolOpt(TRUE),
              CMAKE_EXPORT_COMPILE_COMMANDS |-> BoolOpt(TRUE),
              LLVM_ENABLE_RTTI |-> BoolOpt(TRUE),
              LLVM_ENABLE_ZSTD |-> BoolOpt(FALSE) ]
        vars_runtimes ==
            IF major >= 16
            THEN DictUpdate(vars_dict,
                     [LLVM_ENABLE_RUNTIMES |-> ListOpt(get_enabled_runtimes(stage, conf))])
            ELSE vars_dict
        vars_macos ==
            IF is_macos
            THEN DictUpdate(vars_runtimes,
                     [ COMPILER_RT_ENABLE_IOS |-> BoolOpt(FALSE),
                       COMPILER_RT_ENABLE_WATCHOS |-> BoolOpt(FALSE),
                       COMPILER_RT_ENABLE_TVOS |-> BoolOpt(FALSE) ])
            ELSE vars_runtimes
        vars_use_rt ==
            IF n >= 3 /\ conf.use_compiler_rt
            THEN DictUpdate(vars_macos,
                     [ LIBCXXABI_USE_COMPILER_RT |-> BoolOpt(TRUE),
                       LIBUNWIND_USE_COMPILER_RT |-> BoolOpt(TRUE),
                       LIBCXX_USE_COMPILER_RT |-> BoolOpt(TRUE) ])
            ELSE vars_macos
        \* the block under `if not self.is_first_stage():`
        extra_rpath_flags == ExtraRpathFlags(stage, stage_list, conf)
        extra_linker_flags ==
            (IF on_linux /\ conf.use_compiler_rt THEN <<"-Wl,--exclude-libs,libgcc.a">> ELSE <<>>)
            \o (IF n >= 3 /\ on_linux /\ platform.short_os = "amzn2"
                   /\ platform.arch = "aarch64"
                THEN <<"-lc++">> ELSE <<>>)
            \o extra_rpath_flags
        later_unwinder == DictUpdate(vars_use_rt, [LIBCXXABI_USE_LLVM_UNWINDER |-> BoolOpt(TRUE)])
        later_lld == IF on_linux THEN DictUpdate(later_unwinder, [LLVM_ENABLE_LLD |-> BoolOpt(TRUE)])
                     ELSE later_unwinder
        later_linker ==
            DictUpdate(later_lld,
                [ CMAKE_SHARED_LINKER_FLAGS_INIT |-> ListOpt(extra_linker_flags),
                  CMAKE_MODULE_LINKER_FLAGS_INIT |-> ListOpt(extra_linker_flags),
                  CMAKE_EXE_LINKER_FLAGS_INIT |-> ListOpt(extra_linker_flags) ])
        later_sanitizer ==
            IF n >= 3 /\ on_linux /\ major >= 16
            THEN DictUpdate(later_linker,
                     [ SANITIZER_COMMON_LINK_FLAGS |-> ListOpt(<<"-lc++abi", "-lunwind">>),
                       SANITIZER_TEST_CXX_LIBRARIES |-> StrOpt("-lunwind") ])
            ELSE later_linker
        later_tests ==
            IF stage.is_last_non_lto_stage
            THEN DictUpdate(later_sanitizer, [LLVM_BUILD_TESTS |-> BoolOpt(TRUE)])
            ELSE later_sanitizer
        later_lto ==
            IF stage.lto
            THEN DictUpdate(DictUpdate(later_tests, [LLVM_ENABLE_LTO |-> StrOpt("Full")]),
                            [BUILD_SHARED_LIBS |-> BoolOpt(FALSE)])
            ELSE later_tests
        vars_later == IF ~first THEN later_lto ELSE vars_use_rt
        vars_sanitizer ==
            IF SanitizerCxxAbiStage(stage)
            THEN DictUpdate(vars_later,
                     [ SANITIZER_ALLOW_CXXABI |-> BoolOpt(TRUE),
                       SANITIZER_CXX_ABI |-> StrOpt("libc++"),
                       LLVM_ENABLE_LIBCXX |-> BoolOpt(TRUE),
                       CLANG_DEFAULT_RTLIB |-> StrOpt("compiler-rt") ])
            ELSE vars_later
        vars_compilers ==
            IF conf.use_compiler_wrapper
            THEN DictUpdate(vars_sanitizer, get_cmake_args_for_compiler_wrapper)
            ELSE DictUpdate(vars_sanitizer,
                     [ CMAKE_C_COMPILER |-> StrOpt(get_compilers(stage, stage_list)[1]),
                       CMAKE_CXX_COMPILER |-> StrOpt(get_compilers(stage, stage_list)[2]) ])
    IN [k \in DOMAIN vars_compilers |-> to_cmake_option(vars_compilers[k])]

\* ------------------------------------------------------------------------
\* clang_build_stage.py: ClangBuildStage.build
\* ------------------------------------------------------------------------

BuildTargetsOldOrder(stage, conf) ==
    (IF ~is_first_stage(stage) THEN <<"compiler-rt", "cxxabi", "cxx">> ELSE <<>>)
    \o <<"clang">>

\* `targets` of build: the explicit targets, in the order they are built
BuildTargets(stage, conf) ==
    (IF ~is_first_stage(stage)
     THEN IF conf.llvm_major_version >= 16
          THEN <<"cxxabi", "compiler-rt", "cxx">>
          ELSE <<"compiler-rt", "cxxabi", "cxx">>
     ELSE <<>>)
    \o <<"clang">>

NinjaStep(ninja_args) == [kind |-> "ninja", args |-> ninja_args]

RECURSIVE TargetSteps(_)
\* `for target in targets: self._run_ninja([target])`
TargetSteps(targets) ==
    IF targets = <<>> THEN <<>>
    ELSE <<NinjaStep(<<Head(targets)>>)>> \o TargetSteps(Tail(targets))

BuildStepsWithoutInstall(stage, conf) ==
    <<[kind |-> "cmake", args |-> <<>>]>>
    \o TargetSteps(BuildTargets(stage, conf))
    \o (IF stage.lto
        THEN << NinjaStep(<<"clang", "lld">>) >>
        ELSE << NinjaStep(<<>>) >>)
    \o <<[kind |-> "validate_build_output_arch", args |-> <<>>]>>

\* the statements of build inside the two `with` blocks, in execution order
BuildStepsClangdAfterInstall(stage, conf) ==
    <<[kind |-> "cmake", args |-> <<>>]>>
    \o TargetSteps(BuildTargets(stage, conf))
    \o (IF stage.lto
        THEN << NinjaStep(<<"clang", "lld">>),
                [kind |-> "install_binary_to_final_dir", args |-> <<"clang">>],
                [kind |-> "install_binary_to_final_dir", args |-> <<"lld">>] >>
        ELSE << NinjaStep(<<>>), NinjaStep(<<"install">>) >>
             \o (IF stage.is_last_non_lto_stage
                 THEN TargetSteps(<<"clangd", "clangd-indexer">>)
                      \o << [kind |-> "install_binary_to_final_dir", args |-> <<"clangd-indexer">>],
                            [kind |-> "copy_build_info", args |-> <<"CMakeCache.txt">>],
                            [kind |-> "copy_build_info", args |-> <<"compile_commands.json">>] >>
                 ELSE <<>>))
    \o <<[kind |-> "validate_build_output_arch", args |-> <<>>]>>

BuildSteps(stage, conf) ==
    <<[kind |-> "cmake", args |-> <<>>]>>
    \o TargetSteps(BuildTargets(stage, conf))
    \o (IF stage.lto
        THEN << NinjaStep(<<"clang", "lld">>),
                [kind |-> "install_binary_to_final_dir", args |-> <<"clang">>],
                [kind |-> "install_binary_to_final_dir", args |-> <<"lld">>] >>
        ELSE << NinjaStep(<<>>) >>
             \o (IF stage.is_last_non_lto_stage
                 THEN TargetSteps(<<"clangd", "clangd-indexer">>)
                 ELSE <<>>)
             \o << NinjaStep(<<"install">>) >>
             \o (IF stage.is_last_non_lto_stage
                 THEN << [kind |-> "install_binary_to_final_dir", args |-> <<"clangd-indexer">>],
                         [kind |-> "copy_build_info", args |-> <<"CMakeCache.txt">>],
                         [kind |-> "copy_build_info", args |-> <<"compile_commands.json">>] >>
                 ELSE <<>>))
    \o <<[kind |-> "validate_build_output_arch", args |-> <<>>]>>

\* ------------------------------------------------------------------------
\* What the external build tool leaves behind.  `clang` is built as the
\* binary clang-<major> with the symbolic link clang pointing at it.
\* ------------------------------------------------------------------------

\* helpers.remove_version_suffix: the version without its '-yb-<n>' suffix
remove_version_suffix(version) ==
    LET dashes == {i \in 1..Len(version) : SubSeq(version, i, i) = "-"}
    IN IF dashes = {} THEN version
       ELSE SubSeq(version, 1, (CHOOSE i \in dashes : \A j \in dashes : i <= j) - 1)

\* name of the directory below lib/clang that holds the runtime libraries
ResourceDirVersion(conf) ==
    IF conf.llvm_major_version >= 16 THEN ToString(conf.llvm_major_version)
    ELSE remove_version_suffix(conf.version)

\* directory of the compiler-rt libraries, relative to the build or install directory
RuntimeLibRelDir(conf) ==
    "lib/clang/" \o ResourceDirVersion(conf) \o "/lib/"
    \o (IF is_linux THEN platform.arch \o "-unknown-linux-gnu" ELSE "darwin")

RegularFile(rel) == [rel |-> rel, link |-> ""]

SymLink(rel, target) == [rel |-> rel, link |-> target]

\* the files one ninja target produces below the CMake build directory
TargetOutputs(target, conf) ==
    CASE target = "clang" ->
             { RegularFile("bin/clang-" \o ToString(conf.llvm_major_version)),
               SymLink("bin/clang", "clang-" \o ToString(conf.llvm_major_version)) }
      [] target = "lld" -> { RegularFile("bin/lld"), SymLink("bin/ld.lld", "lld") }
      [] target = "cxxabi" -> { RegularFile("lib/libc++abi.a") }
      [] target = "cxx" -> { RegularFile("lib/libc++.a") }
      [] target = "compiler-rt" ->
             { RegularFile(PathJoin(RuntimeLibRelDir(conf), "libclang_rt.builtins.a")) }
      [] target = "clangd" -> { RegularFile("bin/clangd") }
      [] target = "clangd-indexer" -> { RegularFile("bin/clangd-indexer") }

\* the files the default full build produces
DefaultBuildOutputs(stage, conf) ==
    TargetOutputs("clang", conf) \cup TargetOutputs("lld", conf)
    \cup (IF ~is_first_stage(stage)
          THEN TargetOutputs("cxxabi", conf) \cup TargetOutputs("cxx", conf)
               \cup TargetOutputs("compiler-rt", conf)
          ELSE {})

\* the files `ninja install` puts below the install prefix; clangd-indexer is
\* not among them
InstalledFiles(stage, conf) ==
    DefaultBuildOutputs(stage, conf)
    \cup (IF stage.is_last_non_lto_stage THEN TargetOutputs("clangd", conf) ELSE {})

\* the file system after a successful ninja command of the stage
NinjaEffects(f, stage, conf, ninja_args) ==
    IF ninja_args = <<"install">>
    THEN WriteFiles(f, stage.install_prefix, InstalledFiles(stage, conf), stage.stage_number)
    ELSE IF ninja_args = <<>>
    THEN WriteFiles(f, stage.cmake_build_dir, DefaultBuildOutputs(stage, conf),
                    stage.stage_number)
    ELSE WriteFiles(f, stage.cmake_build_dir,
                    UNION {TargetOutputs(ninja_args[i], conf) : i \in 1..Len(ninja_args)},
                    stage.stage_number)

\* install_binary_to_final_dir: binary_name after the symbolic link is followed
ResolvedBinaryName(f, stage, binary_name) ==
    LET src_path == PathJoin(stage.cmake_build_dir, PathJoin("bin", binary_name))
    IN IF f.files[src_path].link # "" THEN Basename(f.files[src_path].link)
       ELSE binary_name

InstallBinarySrcPath(f, stage, binary_name) ==
    PathJoin(stage.cmake_build_dir, PathJoin("bin", ResolvedBinaryName(f, stage, binary_name)))

InstallBinaryDstPathUnresolved(f, stage, conf, binary_name) ==
    PathJoin(get_final_install_dir(conf), PathJoin("bin", binary_name))

\* dst_path of install_binary_to_final_dir
InstallBinaryDstPath(f, stage, conf, binary_name) ==
    PathJoin(get_final_install_dir(conf),
             PathJoin("bin", ResolvedBinaryName(f, stage, binary_name)))

\* install_binary_to_final_dir raises: the built file is missing, or
\* shutil.copyfile cannot read its source or create its destination
InstallBinaryRaises(f, stage, conf, binary_name) ==
    \/ ~PathExists(f, PathJoin(stage.cmake_build_dir, PathJoin("bin", binary_name)))
    \/ InstallBinarySrcPath(f, stage, binary_name) \notin FilePaths(f)
    \/ ~IsDir(f, Dirname(InstallBinaryDstPath(f, stage, conf, binary_name)))

\* the file system after install_binary_to_final_dir returns
install_binary_to_final_dir(f, stage, conf, binary_name) ==
    WriteFile(f, InstallBinaryDstPath(f, stage, conf, binary_name),
              f.files[InstallBinarySrcPath(f, stage, binary_name)].content, "")

\* ------------------------------------------------------------------------
\* The run as a state machine
\* ------------------------------------------------------------------------

\* directory the tool is started in
START_DIR == "/build-clang"

\* ClangBuildConf.build_start_timestamp_str
BUILD_START_TIMESTAMP_STR == "2024-01-01T00-00-00.000000"

EnvNames ==
    { "BUILD_CLANG_UNDERLYING_C_COMPILER",
      "BUILD_CLANG_UNDERLYING_CXX_COMPILER",
      "BUILD_CLANG_COMPILER_INVOCATIONS_DIR" }

NotParsed == [parsed |-> FALSE]

NotConstructed == [constructed |-> FALSE]

NothingSaved == [path |-> "", env_vars |-> EmptyDict]

LogEntry(stage_number, kind, cmd_args, cmake_vars, ok) ==
    [stage |-> stage_number, kind |-> kind, args |-> cmd_args, vars |-> cmake_vars, ok |-> ok]

\* ------------------------------------------------------------------------
\* clang_builder.py: the paths of packaging and create_clang_rt_builtins_symlinks
\* ------------------------------------------------------------------------

\* final_install_dir of ClangBuilder.run
FinalInstallDir(a, conf) ==
    IF a.upload_earlier_build # "" THEN a.upload_earlier_build ELSE get_final_install_dir(conf)

\* archive_path of ClangBuilder.run
ArchivePath(a, conf) == FinalInstallDir(a, conf) \o ".tar.gz"

\* sha256sum_file_path of ClangBuilder.run
Sha256SumFilePath(a, conf) == ArchivePath(a, conf) \o ".sha256"

\* `assert final_install_dir_basename.startswith(YB_LLVM_ARCHIVE_NAME_PREFIX)`
FinalInstallDirAssertion(a, conf) ==
    StartsWith(Basename(FinalInstallDir(a, conf)), YB_LLVM_ARCHIVE_NAME_PREFIX)

ReleaseTagWholeBasename(a, conf) == Basename(FinalInstallDir(a, conf))

\* tag of ClangBuilder.run
ReleaseTag(a, conf) ==
    SubSeq(Basename(FinalInstallDir(a, conf)), Len(YB_LLVM_ARCHIVE_NAME_PREFIX) + 1,
           Len(Basename(FinalInstallDir(a, conf))))

\* create_clang_rt_builtins_symlinks: the candidates for common_dir_prefix
PrefixDirCandidates(conf, final_install_dir) ==
    { PathJoin(final_install_dir, "lib/clang/" \o version_str \o "/lib") :
        version_str \in {ToString(conf.llvm_major_version), remove_version_suffix(conf.version)} }

ExistingPrefixDirs(f, conf, final_install_dir) ==
    {d \in PrefixDirCandidates(conf, final_install_dir) : IsDir(f, d)}

\* os.path.splitext of a file name, applied as f"{name_without_ext}-{arch}{ext}"
LinkName(file_name) ==
    LET dots == {i \in 2..Len(file_name) : SubSeq(file_name, i, i) = "."}
        last_dot == IF dots = {} THEN Len(file_name) + 1
                    ELSE CHOOSE i \in dots : \A j \in dots : j <= i
    IN SubSeq(file_name, 1, last_dot - 1) \o "-" \o platform.arch
       \o SubSeq(file_name, last_dot, Len(file_name))

\* the .so and .a files of os.listdir(existing_per_arch_dir)
LibraryFiles(f, existing_per_arch_dir) ==
    {p \in FilePaths(f) :
        /\ IsUnder(p, existing_per_arch_dir)
        /\ Dirname(p) = existing_per_arch_dir
        /\ LET file_name == Basename(p)
           IN EndsWith(file_name, ".so") \/ EndsWith(file_name, ".a")}

\* create_clang_rt_builtins_symlinks: the exception it raises, "" for none
CreateSymlinksError(f, conf, final_install_dir) ==
    LET existing_prefix_dirs == ExistingPrefixDirs(f, conf, final_install_dir)
        common_dir_prefix == CHOOSE d \in existing_prefix_dirs : TRUE
        existing_per_arch_dir ==
            PathJoin(common_dir_prefix, platform.arch \o "-unknown-linux-gnu")
        link_parent_dir == PathJoin(common_dir_prefix, "linux")
    IN IF ~is_linux THEN ""
       ELSE IF existing_prefix_dirs = {} THEN "None of these directories exist"
       ELSE IF Cardinality(existing_prefix_dirs) > 1 THEN "Multiple directories exist"
       ELSE IF ~IsDir(f, existing_per_arch_dir) THEN "Directory does not exist"
       ELSE IF \E p \in LibraryFiles(f, existing_per_arch_dir) :
                   PathExists(f, PathJoin(link_parent_dir, LinkName(Basename(p))))
       THEN "FileExistsError"
       ELSE ""

RECURSIVE SymlinkAll(_, _, _)
\* the loop of os.symlink calls
SymlinkAll(f, link_parent_dir, library_files) ==
    IF library_files = {} THEN f
    ELSE LET p == CHOOSE x \in library_files : TRUE
         IN SymlinkAll(WriteFile(f, PathJoin(link_parent_dir, LinkName(Basename(p))), 0,
                                 "../" \o Basename(Dirname(p)) \o "/" \o Basename(p)),
                       link_parent_dir, library_files \ {p})

\* create_clang_rt_builtins_symlinks when it raises nothing: the file system afterwards
create_clang_rt_builtins_symlinks(f, conf, final_install_dir) ==
    LET common_dir_prefix == CHOOSE d \in ExistingPrefixDirs(f, conf, final_install_dir) : TRUE
        existing_per_arch_dir ==
            PathJoin(common_dir_prefix, platform.arch \o "-unknown-linux-gnu")
        link_parent_dir == PathJoin(common_dir_prefix, "linux")
    IN IF ~is_linux THEN f
       ELSE SymlinkAll(mkdir_p(f, link_parent_dir), link_parent_dir,
                       LibraryFiles(f, existing_per_arch_dir))

\* the platform of the runs that vary the stage window
DEFAULT_PLATFORM == [os |-> "linux", short_os |-> "almalinux8", arch |-> "x86_64"]

\* Command lines that vary LTO, PGO, the stage window and --skip_build.
WindowRuns ==
    [ lto : TriState,
      pgo : TriState,
      min_stage : 0..MaxStageArg,
      max_stage : {NoStage} \cup (0..MaxStageArg),
      skip_build : BOOLEAN,
      no_compiler_rt : {FALSE},
      use_compiler_wrapper : {FALSE},
      with_openmp : {TRUE},
      llvm_version : {DEFAULT_LLVM_VERSION},
      skip_auto_suffix : {FALSE},
      top_dir_suffix : {""},
      existing_build_dir : {""},
      upload_earlier_build : {""},
      reuse_tarball : {FALSE},
      skip_upload : {FALSE} ]

\* Command lines that vary LTO, the version and the build options.
OptionRuns ==
    [ lto : {"unset", "off"},
      pgo : {"unset"},
      min_stage : {1},
      max_stage : {NoStage},
      skip_build : {FALSE},
      no_compiler_rt : BOOLEAN,
      use_compiler_wrapper : BOOLEAN,
      with_openmp : BOOLEAN,
      llvm_version : LlvmVersions,
      skip_auto_suffix : {FALSE},
      top_dir_suffix : {""},
      existing_build_dir : {""},
      upload_earlier_build : {""},
      reuse_tarball : {FALSE},
      skip_upload : {FALSE} ]

\* Command lines that vary the options naming the build directory, with the
\* version and the compiler-rt flag; such a run builds stage 1 only.
NamingRuns ==
    [ lto : {"off"},
      pgo : {"unset"},
      min_stage : {1},
      max_stage : {1},
      skip_build : {FALSE},
      no_compiler_rt : BOOLEAN,
      use_compiler_wrapper : {FALSE},
      with_openmp : {TRUE},
      llvm_version : LlvmVersions,
      skip_auto_suffix : BOOLEAN,
      top_dir_suffix : TopDirSuffixes,
      existing_build_dir : ExistingBuildDirs,
      upload_earlier_build : {""},
      reuse_tarball : {FALSE},
      skip_upload : {FALSE} ]

\* Command lines that vary the packaging options; such a run builds the last
\* ordinary stage only, or no stage at all with --upload_earlier_build.
PackagingRuns ==
    [ lto : {"off"},
      pgo : {"unset"},
      min_stage : {NUM_NON_LTO_STAGES},
      max_stage : {NUM_NON_LTO_STAGES},
      skip_build : {FALSE},
      no_compiler_rt : {FALSE},
      use_compiler_wrapper : {FALSE},
      with_openmp : {TRUE},
      llvm_version : {DEFAULT_LLVM_VERSION},
      skip_auto_suffix : {TRUE},
      top_dir_suffix : {""},
      existing_build_dir : {""},
      upload_earlier_build : EarlierBuilds,
      reuse_tarball : BOOLEAN,
      skip_upload : BOOLEAN ]

\* the build-parent directory the run will rename its placeholder-named one to
ResolvedBuildParentDir(c) ==
    get_llvm_build_parent_dir(set_git_sha1(ClangBuildConf(parse_args(c).args), GitSha1))

\* content of an archive, and of its checksum file, left by an earlier run
EARLIER_ARCHIVE == -1

\* The file systems a packaging run can start on.  The archive and the
\* checksum file of an earlier run are absent or present.  The directory given
\* as --upload_earlier_build holds the installed files of the last ordinary
\* stage of an earlier run, without or with the links that the packaging of
\* that run made.
InitialPackagingFileSystems(c) ==
    LET base == [dirs |-> {DEFAULT_INSTALL_PARENT_DIR}, files |-> EmptyFiles]
        a == parse_args(c).args
        conf == ClangBuildConf(a)
        final_install_dir == FinalInstallDir(a, conf)
        installed == WriteFiles(base, final_install_dir,
                                InstalledFiles(init_stages(a, conf)[NUM_NON_LTO_STAGES], conf),
                                NUM_NON_LTO_STAGES)
        trees == IF c.upload_earlier_build = "" THEN {base}
                 ELSE {installed,
                       create_clang_rt_builtins_symlinks(installed, conf, final_install_dir)}
    IN trees \cup
       { WriteFile(WriteFile(f, ArchivePath(a, conf), EARLIER_ARCHIVE, ""),
                   Sha256SumFilePath(a, conf), EARLIER_ARCHIVE, "") : f \in trees }

\* The file systems a run can start on.  The install parent directory exists.
\* A directory given as --existing_build_dir exists and holds the clone of an
\* earlier run.  When the options that name the build directory vary, the
\* directory the run will rename to is absent, present and empty, or holds
\* the files of an earlier run.
InitialFileSystems(c) ==
    LET base == [dirs |-> {DEFAULT_INSTALL_PARENT_DIR}, files |-> EmptyFiles]
        resumed == WriteFile(base,
                             PathJoin(PathJoin(c.existing_build_dir, LLVM_PROJECT_CLONE_REL_PATH),
                                      ".git/HEAD"), 0, "")
        taken == mkdir_p(base, ResolvedBuildParentDir(c))
        in_use == WriteFile(base, PathJoin(ResolvedBuildParentDir(c),
                                           "stage-1/build/CMakeCache.txt"), 0, "")
    IN IF c.existing_build_dir # "" THEN {resumed}
       ELSE IF c \in NamingRuns /\ ~c.skip_auto_suffix THEN {base, taken, in_use}
       ELSE IF c \in PackagingRuns THEN InitialPackagingFileSystems(c)
       ELSE {base}

\* The environments a run can start in: the BUILD_CLANG_* variables are all
\* unset, or, for a run with the compiler wrapper, all set by the caller.
InitialEnvironments(c) ==
    {[name \in EnvNames |-> ""]}
    \cup (IF c.use_compiler_wrapper THEN {[name \in EnvNames |-> "/caller/" \o name]} ELSE {})

\* A run starts from a command line that varies the stage window, the build
\* options, the naming options or the packaging options.
Init ==
    /\ pc = "parse_args"
    /\ \/ cli \in WindowRuns /\ platform = DEFAULT_PLATFORM
       \/ cli \in OptionRuns /\ platform \in Platforms
       \/ cli \in NamingRuns /\ platform \in Platforms
       \/ cli \in PackagingRuns /\ platform \in Platforms
    /\ args = NotParsed
    /\ build_conf = NotConstructed
    /\ stages = <<>>
    /\ idx = 0
    /\ step = 0
    /\ cwd = START_DIR
    /\ caller_env \in InitialEnvironments(cli)
    /\ env = caller_env
    /\ saved = NothingSaved
    /\ log = <<>>
    /\ fs \in InitialFileSystems(cli)
    /\ atexit = ""

\* cmd_line_args.parse_args
ParseArgs ==
    /\ pc = "parse_args"
    /\ LET result == parse_args(cli)
       IN /\ args' = result.args
          /\ IF result.error # ""
             THEN /\ pc' = "config_error"
                  /\ UNCHANGED build_conf
             ELSE /\ pc' = "run"
                  /\ build_conf' = ClangBuildConf(result.args)
    /\ UNCHANGED <<cli, platform, caller_env, stages, idx, step, cwd, env, saved, log, fs, atexit>>

\* ClangBuilder.run: the computed build directory differs from --existing_build_dir
BuildDirMismatch(a, conf) ==
    a.existing_build_dir # "" /\ get_llvm_build_parent_dir(conf) # a.existing_build_dir

\* ClangBuilder.run: `raise ValueError("Build directory mismatch, ...")`
RunBuildDirMismatch ==
    /\ pc = "run"
    /\ BuildDirMismatch(args, build_conf)
    /\ pc' = "failed"
    /\ UNCHANGED <<cli, platform, caller_env, args, build_conf, stages, idx, step, cwd, env, saved, log,
                   fs, atexit>>

ResolveAlways(a) == "set_git_sha1"

\* what the run does after the clone step: `if not self.args.skip_auto_suffix`
AfterCloneSkippingResolution(a) == "save_git_log"

AfterClone(a) == IF ~a.skip_auto_suffix THEN "set_git_sha1" ELSE "save_git_log"

\* ClangBuilder.run: `if not self.args.upload_earlier_build` is false, the
\* clone, the resolution and the stages are skipped
RunUploadEarlierBuild ==
    /\ pc = "run"
    /\ ~BuildDirMismatch(args, build_conf)
    /\ args.upload_earlier_build # ""
    /\ pc' = "stages_done"
    /\ UNCHANGED <<cli, platform, caller_env, args, build_conf, stages, idx, step, cwd, env, saved, log,
                   fs, atexit>>

\* ClangBuilder.run: "Not cloning the code, assuming it has already been done."
RunExistingBuildDir ==
    /\ pc = "run"
    /\ ~BuildDirMismatch(args, build_conf)
    /\ args.upload_earlier_build = ""
    /\ args.existing_build_dir # ""
    /\ pc' = AfterClone(args)
    /\ UNCHANGED <<cli, platform, caller_env, args, build_conf, stages, idx, step, cwd, env, saved, log,
                   fs, atexit>>

\* clone_llvm_source_code registers remove_dir_with_placeholder_in_name with
\* atexit: the basename of the build-parent directory holds the placeholder
PlaceholderInBuildParentDir(conf) ==
    Contains(Basename(get_llvm_build_parent_dir(conf)),
             NAME_COMPONENT_SEPARATOR \o GIT_SHA1_PLACEHOLDER_STR \o NAME_COMPONENT_SEPARATOR)

\* ClangBuilder.run: clone_llvm_source_code and mkdir_p of the build-info directory
RunCloneLlvmSourceCode ==
    /\ pc = "run"
    /\ args.upload_earlier_build = ""
    /\ args.existing_build_dir = ""
    /\ atexit' = IF PlaceholderInBuildParentDir(build_conf)
                 THEN get_llvm_project_clone_dir(build_conf)
                 ELSE atexit
    /\ \E ok \in BOOLEAN :
        /\ log' = Append(log, LogEntry(0, "git_clone", <<"llvmorg-" \o build_conf.version>>,
                                       EmptyDict, ok))
        /\ IF ok
           THEN /\ fs' = mkdir_p(WriteFile(fs, PathJoin(get_llvm_project_clone_dir(build_conf),
                                                        ".git/HEAD"), 0, ""),
                                 get_llvm_build_info_dir(build_conf))
                /\ pc' = AfterClone(args)
           ELSE /\ pc' = "failed"
                /\ UNCHANGED fs
    /\ UNCHANGED <<cli, platform, caller_env, args, build_conf, stages, idx, step, cwd, env, saved>>

\* ClangBuilder.run: get_current_git_sha1 and build_conf.set_git_sha1.  The
\* prefix is assigned before os.rename is called.
RunSetGitSha1 ==
    /\ pc = "set_git_sha1"
    /\ \E ok \in BOOLEAN :
        LET old_build_parent_dir == get_llvm_build_parent_dir(build_conf)
            new_conf == set_git_sha1(build_conf, GitSha1)
            new_build_parent_dir == get_llvm_build_parent_dir(new_conf)
            renamed == ~RenameFails(fs, old_build_parent_dir, new_build_parent_dir)
            rev_parse == LogEntry(0, "git_rev_parse", <<"HEAD">>, EmptyDict, ok)
        IN IF ok
           THEN /\ build_conf' = new_conf
                /\ log' = log \o << rev_parse,
                                    LogEntry(0, "rename",
                                             <<old_build_parent_dir, new_build_parent_dir>>,
                                             EmptyDict, renamed) >>
                /\ IF renamed
                   THEN /\ fs' = Rename(fs, old_build_parent_dir, new_build_parent_dir)
                        /\ pc' = "save_git_log"
                   ELSE /\ pc' = "failed"
                        /\ UNCHANGED fs
           ELSE /\ log' = Append(log, rev_parse)
                /\ pc' = "failed"
                /\ UNCHANGED <<build_conf, fs>>
    /\ UNCHANGED <<cli, platform, caller_env, args, stages, idx, step, cwd, env, saved, atexit>>

\* ClangBuilder.run: save_git_log_to_file, then init_stages
RunInitStages ==
    /\ pc = "save_git_log"
    /\ \E ok \in BOOLEAN :
        /\ log' = Append(log, LogEntry(0, "git_log", <<>>, EmptyDict, ok))
        /\ IF ok /\ InitStagesAssertionsHold(init_stages(args, build_conf))
           THEN /\ stages' = init_stages(args, build_conf)
                /\ idx' = 1
                /\ pc' = "stage_loop"
                /\ fs' = WriteFile(fs, PathJoin(get_llvm_build_info_dir(build_conf),
                                                "llvm_git_log.txt"), 0, "")
           ELSE /\ pc' = "failed"
                /\ fs' = mkdir_p(fs, get_llvm_build_info_dir(build_conf))
                /\ UNCHANGED <<stages, idx>>
    /\ UNCHANGED <<cli, platform, caller_env, args, build_conf, step, cwd, env, saved, atexit>>

\* effective_max_stage of ClangBuilder.run
effective_max_stage(a) == IF a.lto THEN NUM_NON_LTO_STAGES + 1 ELSE a.max_stage

\* `self.args.min_stage <= stage.stage_number` of the chained comparison
AboveMinStage(a, stage) == a.min_stage <= stage.stage_number

\* the chained comparison reaches `stage.stage_number <= None` and raises TypeError
WindowTestRaises(a, stage) ==
    AboveMinStage(a, stage) /\ effective_max_stage(a) = NoStage

\* `self.args.min_stage <= stage.stage_number <= effective_max_stage`
InWindow(a, stage) ==
    /\ AboveMinStage(a, stage)
    /\ effective_max_stage(a) # NoStage
    /\ stage.stage_number <= effective_max_stage(a)

\* ClangBuilder.run: the else branch of the loop body
RunSkipStage ==
    /\ pc = "stage_loop"
    /\ idx <= Len(stages)
    /\ ~WindowTestRaises(args, stages[idx])
    /\ ~InWindow(args, stages[idx])
    /\ idx' = idx + 1
    /\ UNCHANGED <<pc, cli, platform, caller_env, args, build_conf, stages, step, cwd, env, saved, log,
                   fs, atexit>>

\* ClangBuilder.run: the window test fails on max_stage None
RunWindowTestRaises ==
    /\ pc = "stage_loop"
    /\ idx <= Len(stages)
    /\ WindowTestRaises(args, stages[idx])
    /\ pc' = "failed"
    /\ UNCHANGED <<cli, platform, caller_env, args, build_conf, stages, idx, step, cwd, env, saved, log,
                   fs, atexit>>

\* the variables EnvVarContext is entered with
StageEnvVars(stage) ==
    IF build_conf.use_compiler_wrapper
    THEN [ BUILD_CLANG_UNDERLYING_C_COMPILER |-> get_compilers(stage, stages)[1],
           BUILD_CLANG_UNDERLYING_CXX_COMPILER |-> get_compilers(stage, stages)[2],
           BUILD_CLANG_COMPILER_INVOCATIONS_DIR |->
               PathJoin(stage.compiler_invocations_top_dir, BUILD_START_TIMESTAMP_STR) ]
    ELSE EmptyDict

\* build before its `with` blocks: rm_rf of the CMake build directory of a
\* clean build, then mkdir_p of compiler_invocations_dir and cmake_build_dir
StageDirsCreated(f, stage, conf) ==
    LET cleaned == IF PathExists(f, stage.cmake_build_dir) /\ conf.clean_build
                   THEN rm_rf(f, stage.cmake_build_dir)
                   ELSE f
    IN mkdir_p(mkdir_p(cleaned, PathJoin(stage.compiler_invocations_top_dir,
                                         BUILD_START_TIMESTAMP_STR)),
               stage.cmake_build_dir)

\* ClangBuilder.run calls stage.build(); build up to the entry of both `with` blocks
StageBuildBegin ==
    /\ pc = "stage_loop"
    /\ idx <= Len(stages)
    /\ InWindow(args, stages[idx])
    /\ LET stage == stages[idx]
           env_vars == StageEnvVars(stage)
       IN /\ saved' = [path |-> cwd, env_vars |-> [k \in DOMAIN env_vars |-> env[k]]]
          /\ cwd' = stage.cmake_build_dir
          /\ env' = [name \in EnvNames |->
                        IF name \in DOMAIN env_vars THEN env_vars[name] ELSE env[name]]
          /\ fs' = StageDirsCreated(fs, stage, build_conf)
    /\ pc' = "stage_build"
    /\ step' = 1
    /\ UNCHANGED <<cli, platform, caller_env, args, build_conf, stages, idx, log, atexit>>

CurrentStep == BuildSteps(stages[idx], build_conf)[step]

ExitContextsUnsetting ==
    /\ env' = [name \in EnvNames |-> IF name \in DOMAIN saved.env_vars THEN "" ELSE env[name]]
    /\ cwd' = saved.path
    /\ saved' = NothingSaved

\* EnvVarContext.__exit__ and ChangeDir.__exit__
ExitContexts ==
    /\ env' = [name \in EnvNames |->
                  IF name \in DOMAIN saved.env_vars THEN saved.env_vars[name] ELSE env[name]]
    /\ cwd' = saved.path
    /\ saved' = NothingSaved

FinishStepIgnoringFailure(ok) ==
    IF step = Len(BuildSteps(stages[idx], build_conf))
    THEN /\ pc' = "stage_loop"
         /\ step' = 0
         /\ idx' = idx + 1
         /\ ExitContexts
    ELSE /\ step' = step + 1
         /\ UNCHANGED <<pc, idx, cwd, env, saved>>

\* what follows one statement of build: the next statement, the end of build
\* and the next iteration of the loop of run, or the exception leaving both
FinishStep(ok) ==
    IF ~ok
    THEN /\ pc' = "failed"
         /\ step' = 0
         /\ ExitContexts
         /\ UNCHANGED idx
    ELSE IF step = Len(BuildSteps(stages[idx], build_conf))
    THEN /\ pc' = "stage_loop"
         /\ step' = 0
         /\ idx' = idx + 1
         /\ ExitContexts
    ELSE /\ step' = step + 1
         /\ UNCHANGED <<pc, idx, cwd, env, saved>>

\* the files the configure step writes into the CMake build directory
CmakeOutputs == { RegularFile("CMakeCache.txt"), RegularFile("compile_commands.json") }

\* build: get_llvm_cmake_variables and the cmake command
RunCmake ==
    /\ pc = "stage_build"
    /\ CurrentStep.kind = "cmake"
    /\ \E ok \in BOOLEAN :
        /\ log' = Append(log, LogEntry(stages[idx].stage_number, "cmake", <<>>,
                             get_llvm_cmake_variables(stages[idx], stages, build_conf), ok))
        /\ fs' = IF ok
                 THEN WriteFiles(fs, stages[idx].cmake_build_dir, CmakeOutputs,
                                 stages[idx].stage_number)
                 ELSE fs
        /\ FinishStep(ok)
    /\ UNCHANGED <<cli, platform, caller_env, args, build_conf, stages, atexit>>

\* ClangBuildStage._run_ninja
RunNinja ==
    /\ pc = "stage_build"
    /\ CurrentStep.kind = "ninja"
    /\ \E ok \in BOOLEAN :
        /\ log' = Append(log, LogEntry(stages[idx].stage_number, "ninja", CurrentStep.args,
                                       EmptyDict, ok))
        /\ fs' = IF ok THEN NinjaEffects(fs, stages[idx], build_conf, CurrentStep.args) ELSE fs
        /\ FinishStep(ok)
    /\ UNCHANGED <<cli, platform, caller_env, args, build_conf, stages, atexit>>

\* ClangBuildStage.install_binary_to_final_dir
InstallBinaryToFinalDir ==
    /\ pc = "stage_build"
    /\ CurrentStep.kind = "install_binary_to_final_dir"
    /\ \E ok \in IF InstallBinaryRaises(fs, stages[idx], build_conf, CurrentStep.args[1])
                 THEN {FALSE} ELSE BOOLEAN :
        /\ log' = Append(log, LogEntry(stages[idx].stage_number, "install_binary_to_final_dir",
                                       CurrentStep.args, EmptyDict, ok))
        /\ fs' = IF ok
                 THEN install_binary_to_final_dir(fs, stages[idx], build_conf,
                                                  CurrentStep.args[1])
                 ELSE fs
        /\ FinishStep(ok)
    /\ UNCHANGED <<cli, platform, caller_env, args, build_conf, stages, atexit>>

\* build: shutil.copyfile of one build-info file
CopyBuildInfo ==
    /\ pc = "stage_build"
    /\ CurrentStep.kind = "copy_build_info"
    /\ LET src_path == PathJoin(stages[idx].cmake_build_dir, CurrentStep.args[1])
           dst_path == PathJoin(get_llvm_build_info_dir(build_conf), CurrentStep.args[1])
           raises == src_path \notin FilePaths(fs) \/ ~IsDir(fs, Dirname(dst_path))
       IN \E ok \in IF raises THEN {FALSE} ELSE BOOLEAN :
           /\ log' = Append(log, LogEntry(stages[idx].stage_number, "copy_build_info",
                                          CurrentStep.args, EmptyDict, ok))
           /\ fs' = IF ok THEN WriteFile(fs, dst_path, fs.files[src_path].content, "") ELSE fs
           /\ FinishStep(ok)
    /\ UNCHANGED <<cli, platform, caller_env, args, build_conf, stages, atexit>>

\* architecture.validate_build_output_arch: returns at once unless on macOS
ValidateBuildOutputArch ==
    /\ pc = "stage_build"
    /\ CurrentStep.kind = "validate_build_output_arch"
    /\ IF ~is_macos
       THEN /\ UNCHANGED log
            /\ FinishStep(TRUE)
       ELSE \E ok \in BOOLEAN :
            /\ log' = Append(log, LogEntry(stages[idx].stage_number,
                                 "validate_build_output_arch", <<>>, EmptyDict, ok))
            /\ FinishStep(ok)
    /\ UNCHANGED <<cli, platform, caller_env, args, build_conf, stages, fs, atexit>>

\* ClangBuilder.run: the loop over the stages is exhausted
RunStagesDone ==
    /\ pc = "stage_loop"
    /\ idx > Len(stages)
    /\ pc' = "stages_done"
    /\ UNCHANGED <<cli, platform, caller_env, args, build_conf, stages, idx, step, cwd, env, saved, log,
                   fs, atexit>>

\* ------------------------------------------------------------------------
\* clang_builder.py: packaging and release
\* ------------------------------------------------------------------------

\* ClangBuilder.run: create_clang_rt_builtins_symlinks(final_install_dir)
RunCreateSymlinks ==
    /\ pc = "stages_done"
    /\ IF CreateSymlinksError(fs, build_conf, FinalInstallDir(args, build_conf)) # ""
       THEN /\ pc' = "failed"
            /\ UNCHANGED fs
       ELSE /\ pc' = "archive"
            /\ fs' = create_clang_rt_builtins_symlinks(
                         fs, build_conf, FinalInstallDir(args, build_conf))
    /\ UNCHANGED <<cli, platform, caller_env, args, build_conf, stages, idx, step, cwd, env, saved, log,
                   atexit>>

ReuseTarballNever(f, a, conf) == FALSE

\* ClangBuilder.run: the archive of an earlier run is kept
ReuseTarball(f, a, conf) == a.reuse_tarball /\ PathExists(f, ArchivePath(a, conf))

\* ClangBuilder.run: os.remove of a stale archive, whose OSError is only
\* logged, and `tar czf`, which writes the archive anew
RunTar ==
    /\ pc = "archive"
    /\ IF ReuseTarball(fs, args, build_conf)
       THEN /\ pc' = "checksum"
            /\ UNCHANGED <<log, fs>>
       ELSE LET archive_path == ArchivePath(args, build_conf)
                stale == PathExists(fs, archive_path)
            IN \E removed \in IF stale THEN BOOLEAN ELSE {FALSE} :
               \E ok \in IF IsDir(fs, FinalInstallDir(args, build_conf))
                          THEN BOOLEAN ELSE {FALSE} :
                   LET after_remove == IF removed THEN rm_rf(fs, archive_path) ELSE fs
                       remove_entry == LogEntry(0, "remove", <<archive_path>>, EmptyDict, removed)
                       tar_entry == LogEntry(0, "tar",
                                             << Basename(archive_path),
                                                Basename(FinalInstallDir(args, build_conf)) >>,
                                             EmptyDict, ok)
                   IN /\ log' = log \o (IF stale THEN <<remove_entry>> ELSE <<>>)
                                    \o <<tar_entry>>
                      /\ fs' = IF ok THEN WriteFile(after_remove, archive_path, 0, "")
                               ELSE after_remove
                      /\ pc' = IF ok THEN "checksum" ELSE "failed"
    /\ UNCHANGED <<cli, platform, caller_env, args, build_conf, stages, idx, step, cwd, env, saved, atexit>>

\* ClangBuilder.run: sha256sum (shasum on macOS), the write of the .sha256
\* file and the assertion on the basename of the final install directory
RunSha256Sum ==
    /\ pc = "checksum"
    /\ \E ok \in IF PathExists(fs, ArchivePath(args, build_conf)) THEN BOOLEAN ELSE {FALSE} :
        /\ log' = Append(log, LogEntry(0, IF is_macos THEN "shasum" ELSE "sha256sum",
                                       <<ArchivePath(args, build_conf)>>, EmptyDict, ok))
        /\ fs' = IF ok THEN WriteFile(fs, Sha256SumFilePath(args, build_conf),
                                      fs.files[ArchivePath(args, build_conf)].content, "")
                 ELSE fs
        /\ pc' = IF ok /\ FinalInstallDirAssertion(args, build_conf) THEN "upload" ELSE "failed"
    /\ UNCHANGED <<cli, platform, caller_env, args, build_conf, stages, idx, step, cwd, env, saved, atexit>>

\* ClangBuilder.run: `hub release create`, unless --skip_upload
RunHubRelease ==
    /\ pc = "upload"
    /\ IF args.skip_upload
       THEN /\ pc' = "done"
            /\ UNCHANGED log
       ELSE \E ok \in BOOLEAN :
            /\ log' = Append(log, LogEntry(0, "hub_release",
                                 << ReleaseTag(args, build_conf),
                                    ArchivePath(args, build_conf),
                                    Sha256SumFilePath(args, build_conf) >>,
                                 EmptyDict, ok))
            /\ pc' = IF ok THEN "done" ELSE "failed"
    /\ UNCHANGED <<cli, platform, caller_env, args, build_conf, stages, idx, step, cwd, env, saved, fs,
                   atexit>>

\* the interpreter exits: remove_dir_with_placeholder_in_name, where it was
\* registered, removes the directory if it exists and else only logs a warning
AtExit ==
    /\ pc \in {"failed", "done"}
    /\ atexit # ""
    /\ fs' = IF PathExists(fs, atexit) THEN rm_rf(fs, atexit) ELSE fs
    /\ UNCHANGED <<pc, cli, platform, caller_env, args, build_conf, stages, idx, step, cwd, env, saved,
                   log, atexit>>

Next ==
    \/ ParseArgs
    \/ RunBuildDirMismatch
    \/ RunUploadEarlierBuild
    \/ RunExistingBuildDir
    \/ RunCloneLlvmSourceCode
    \/ RunSetGitSha1
    \/ RunInitStages
    \/ RunSkipStage
    \/ RunWindowTestRaises
    \/ StageBuildBegin
    \/ RunCmake
    \/ RunNinja
    \/ InstallBinaryToFinalDir
    \/ CopyBuildInfo
    \/ ValidateBuildOutputArch
    \/ RunStagesDone
    \/ RunCreateSymlinks
    \/ RunTar
    \/ RunSha256Sum
    \/ RunHubRelease
    \/ AtExit

Spec == Init /\ [][Next]_vars

\* ------------------------------------------------------------------------
\* Properties
\* ------------------------------------------------------------------------

\* the build of stage n was invoked: with the log empty for the stage, build
\* has not run its first command
StageBuildInvoked(n) ==
    \/ \E k \in 1..Len(log) : log[k].stage = n
    \/ (pc = "stage_build" /\ idx = n)

\* the cmake commands run so far
CmakeEntries == {k \in 1..Len(log) : log[k].kind = "cmake"}

\* C1: the i-th stage of the list has stage_number i, stage 1 has no
\* predecessor, and the predecessor of every later stage is the stage numbered
\* one less.
C1_StageNumbering ==
    \A i \in 1..Len(stages) :
        /\ stages[i].stage_number = i
        /\ (i = 1 => stages[i].prev_stage = 0)
        /\ (i > 1 => /\ stages[i].prev_stage \in 1..Len(stages)
                     /\ stages[stages[i].prev_stage].stage_number = i - 1)

C1_Witness == Len(stages) = 4 /\ stages[4].lto /\ stages[4].prev_stage = 3

\* C2 (as claimed): the list has 3 ordinary stages, one more iff LTO is on and
\* three more iff PGO is on, so its length is 3, 4 or 7.
C2_StageCountWithPgo ==
    (stages # <<>> /\ ~cli.skip_build) =>
        /\ Len(stages) = NUM_NON_LTO_STAGES + (IF args.lto THEN 1 ELSE 0)
                                            + (IF args.pgo THEN 3 ELSE 0)
        /\ Len(stages) \in {3, 4, 7}

\* C3: PGO requested with LTO disabled ends in a configuration error before
\* any external command has run; an unspecified PGO takes the value of LTO;
\* every accepted configuration has PGO only with LTO.
C3_PgoRequiresLto ==
    /\ (cli.pgo = "on" /\ cli.lto = "off") =>
           (pc \in {"parse_args", "config_error"} /\ log = <<>>)
    /\ pc \notin {"parse_args", "config_error"} =>
           /\ args.pgo => args.lto
           /\ cli.pgo = "unset" => args.pgo = args.lto

C3_Witness == pc = "config_error" /\ cli.pgo = "on" /\ cli.lto = "off" /\ log = <<>>

\* C4 (as claimed): a window that is not rejected lies inside [1, len(stages)]
\* and is not inverted, and an omitted max_stage is the length of the list.
C4_WindowWithinBuiltStages ==
    (stages # <<>> /\ ~cli.skip_build) =>
        /\ 1 <= args.min_stage
        /\ args.min_stage <= args.max_stage
        /\ args.max_stage <= Len(stages)
        /\ cli.max_stage = NoStage => args.max_stage = Len(stages)

\* C5 (as claimed): in a completed run the build of a stage was invoked iff
\* min_stage <= stage_number <= max_stage.
C5_BuiltIffInWindow ==
    (pc = "stages_done" /\ ~cli.skip_build) =>
        \A i \in 1..Len(stages) :
            StageBuildInvoked(stages[i].stage_number) <=>
                (args.min_stage <= stages[i].stage_number
                 /\ stages[i].stage_number <= args.max_stage)

\* the step that completes the installation of a stage: `ninja install`, or for
\* the LTO stage the copy of the last of its two binaries
InstallCompleted(e) ==
    /\ e.ok
    /\ \/ (e.kind = "ninja" /\ e.args = <<"install">>)
       \/ (e.kind = "install_binary_to_final_dir" /\ e.args = <<"lld">>)

\* C6: commands of the stage builds appear in increasing stage order, the
\* commands of one stage are never interleaved with those of another, and a
\* later stage starts only after the install step of every earlier built stage
\* has completed.
C6_SequentialStages ==
    LET positions == [n \in 1..Len(stages) |-> {k \in 1..Len(log) : log[k].stage = n}]
        installs == [n \in 1..Len(stages) |-> {k \in positions[n] : InstallCompleted(log[k])}]
    IN \A n, m \in 1..Len(stages) :
           n < m =>
               \A j \in positions[m] :
                   /\ \A i \in positions[n] : i < j
                   /\ positions[n] # {} => \E k \in installs[n] : k < j

C6_Witness ==
    \E i, j \in 1..Len(log) :
        /\ i < j
        /\ log[i].stage = 3 /\ InstallCompleted(log[i])
        /\ log[j].stage = 4 /\ log[j].kind = "cmake"

RuntimeLibraries == {"compiler-rt", "libcxx", "libcxxabi"}

NoRuntimeLibrary(items) == \A i \in 1..Len(items) : items[i] \notin RuntimeLibraries

\* C7: the options stage 1 is configured with enable none of compiler-rt,
\* libcxx and libcxxabi, neither as a project nor as a runtime.
C7_FirstStageWithoutRuntimes ==
    \A k \in CmakeEntries :
        log[k].stage = 1 =>
            /\ NoRuntimeLibrary(log[k].vars["LLVM_ENABLE_PROJECTS"])
            /\ "LLVM_ENABLE_RUNTIMES" \in DOMAIN log[k].vars =>
                   NoRuntimeLibrary(log[k].vars["LLVM_ENABLE_RUNTIMES"])

C7_Witness ==
    \E k \in CmakeEntries :
        /\ log[k].stage = 1
        /\ "LLVM_ENABLE_RUNTIMES" \in DOMAIN log[k].vars
        /\ args.lto /\ ~build_conf.use_compiler_rt /\ build_conf.openmp_enabled

\* option `name` is set to `value` when `present`, and absent otherwise
OptionIff(cmake_vars, name, value, present) ==
    IF present
    THEN name \in DOMAIN cmake_vars /\ cmake_vars[name] = value
    ELSE name \notin DOMAIN cmake_vars

\* C8: SANITIZER_ALLOW_CXXABI=ON, SANITIZER_CXX_ABI=libc++ and
\* CLANG_DEFAULT_RTLIB=compiler-rt are set iff the stage number is at least 3.
C8_SanitizerCxxAbi ==
    \A k \in CmakeEntries :
        /\ OptionIff(log[k].vars, "SANITIZER_ALLOW_CXXABI", <<"ON">>, log[k].stage >= 3)
        /\ OptionIff(log[k].vars, "SANITIZER_CXX_ABI", <<"libc++">>, log[k].stage >= 3)
        /\ OptionIff(log[k].vars, "CLANG_DEFAULT_RTLIB", <<"compiler-rt">>, log[k].stage >= 3)

C8_Witness ==
    /\ \E k \in CmakeEntries : log[k].stage = 2
    /\ \E k \in CmakeEntries :
           log[k].stage = 4 /\ "SANITIZER_ALLOW_CXXABI" \in DOMAIN log[k].vars
    /\ ~build_conf.use_compiler_rt
    /\ build_conf.use_compiler_wrapper

\* C9 (as claimed): CLANG_DEFAULT_CXX_STDLIB=libc++ is among the options of
\* every stage numbered 2 or more and absent from those of stage 1.
C9_DefaultCxxStdlib ==
    \A k \in CmakeEntries :
        OptionIff(log[k].vars, "CLANG_DEFAULT_CXX_STDLIB", <<"libc++">>, log[k].stage >= 2)

\* the ninja commands of the build of stage n, in the order they were run
NinjaLog(n) == SelectSeq(log, LAMBDA e : e.stage = n /\ e.kind = "ninja")

\* the order of the explicit targets the claim states for stage n
ClaimedTargets(n) ==
    IF n = 1 THEN <<"clang">>
    ELSE IF build_conf.llvm_major_version >= 16
    THEN <<"cxxabi", "compiler-rt", "cxx", "clang">>
    ELSE <<"compiler-rt", "cxxabi", "cxx", "clang">>

\* C10: the ninja commands of a stage are its explicit targets one by one in
\* the version-dependent order, each run only after the one before it
\* succeeded, and the build that follows them (the default full build, or
\* clang and lld on the LTO stage) comes after all of them.
C10_TargetOrder ==
    \A n \in 1..Len(stages) :
        LET ninja == NinjaLog(n)
            claimed == ClaimedTargets(n)
        IN \A i \in 1..Len(ninja) :
            /\ i <= Len(claimed) => ninja[i].args = <<claimed[i]>>
            /\ i > 1 => ninja[i - 1].ok
            /\ i = Len(claimed) + 1 =>
                   ninja[i].args = IF stages[n].lto THEN <<"clang", "lld">> ELSE <<>>

C10_Witness ==
    /\ Len(NinjaLog(1)) >= 2
    /\ Len(NinjaLog(2)) >= 5
    /\ NinjaLog(2)[1].args = <<"cxxabi">>
    /\ NinjaLog(2)[5].args = <<>>

\* the files below the final install directory
FinalInstallFiles(f) ==
    LET final_install_dir == get_final_install_dir(build_conf)
    IN {p \in FilePaths(f) : IsUnder(p, final_install_dir)}

\* where the claim lets the LTO stage write: bin/clang under the name its
\* symbolic link points at, and bin/lld
LtoBinaryPaths ==
    { PathJoin(get_final_install_dir(build_conf),
               "bin/clang-" \o ToString(build_conf.llvm_major_version)),
      PathJoin(get_final_install_dir(build_conf), "bin/lld") }

\* the step is one of the build of the LTO stage
LtoStageStep == pc = "stage_build" /\ stages[idx].lto

\* C11: a step of the build of the LTO stage runs neither `ninja install` nor
\* the default full build; below the final install directory it creates or
\* changes no file other than bin/clang (under the name its symbolic link
\* points at) and bin/lld, and it removes none.
C11_LtoStageWritesTwoBinaries ==
    [][LtoStageStep =>
          /\ \A k \in (Len(log) + 1)..Len(log') :
                 ~(log'[k].kind = "ninja" /\ log'[k].args \in {<<"install">>, <<>>})
          /\ FinalInstallFiles(fs) \subseteq FinalInstallFiles(fs')
          /\ \A p \in FinalInstallFiles(fs') \ LtoBinaryPaths :
                 p \in FinalInstallFiles(fs) /\ fs'.files[p] = fs.files[p]]_vars

C11_Witness ==
    /\ pc = "stage_loop" /\ idx = 5 /\ Len(stages) = 4 /\ stages[4].lto
    /\ \A p \in LtoBinaryPaths : p \in FilePaths(fs) /\ fs.files[p].content = 4
    /\ \E p \in FinalInstallFiles(fs) \ LtoBinaryPaths :
           fs.files[p].content = 3 /\ fs.files[p].link # ""
    /\ \E p \in FinalInstallFiles(fs) \ LtoBinaryPaths :
           fs.files[p].content = 3 /\ fs.files[p].link = ""

\* the calls of os.rename made so far
RenameEntries == {k \in 1..Len(log) : log[k].kind = "rename"}

\* the configuration exists and its revision prefix is bound
Resolved == pc \notin {"parse_args", "config_error"} /\ build_conf.git_sha1_prefix # ""

\* the two paths of a call of os.rename are the build-parent directory named
\* with the placeholder token and its sibling named with the revision prefix
PlaceholderToRevision(old_dir, new_dir) ==
    /\ Dirname(old_dir) = Dirname(new_dir)
    /\ Contains(Basename(old_dir), GIT_SHA1_PLACEHOLDER_STR)
    /\ ~Contains(Basename(new_dir), GIT_SHA1_PLACEHOLDER_STR)
    /\ Contains(Basename(new_dir), "-abcdef12-")
    /\ EndsWith(old_dir, BUILD_DIR_SUFFIX_WITH_SEPARATOR)

\* C12: in any run os.rename is called at most once; the call comes right
\* after the revision was read and moves the build-parent directory named with
\* the placeholder token to the one named with the revision prefix (the paths
\* of a call are examined in the state the call leads to); the configuration
\* is resolved exactly when that call was made; and a run given
\* --existing_build_dir or --skip_auto_suffix makes no such call and stays
\* unresolved.
C12_ResolvedAtMostOnce ==
    /\ Cardinality(RenameEntries) <= 1
    /\ \A k \in RenameEntries :
           /\ k > 1 /\ log[k - 1].kind = "git_rev_parse" /\ log[k - 1].ok
           /\ log[k].args[2] = get_llvm_build_parent_dir(build_conf)
           /\ k = Len(log) => PlaceholderToRevision(log[k].args[1], log[k].args[2])
    /\ Resolved <=> RenameEntries # {}
    /\ (cli.existing_build_dir # "" \/ cli.skip_auto_suffix) => RenameEntries = {}

C12_Witness ==
    /\ pc = "stage_build"
    /\ \E k \in RenameEntries :
           /\ log[k].ok
           /\ IsDir(fs, log[k].args[2])
           /\ ~PathExists(fs, log[k].args[1])
    /\ cli.top_dir_suffix # ""

\* the step calls os.rename
RenameStep == pc = "set_git_sha1" /\ RenameEntries = {} /\ RenameEntries' # {}

\* C13 (as claimed, for a destination that holds entries): a call of
\* os.rename whose destination exists fails, the file system is left as it
\* was (placeholder-named directory in place, destination neither replaced nor
\* merged into), and the configuration is still unresolved: no revision
\* prefix, build-parent directory still named with the placeholder.
C13_RenameOntoExistingFailsAtomically ==
    [][(/\ RenameStep
        /\ IsDir(fs, get_llvm_build_parent_dir(build_conf'))
        /\ ~IsEmptyDir(fs, get_llvm_build_parent_dir(build_conf')))
          => /\ pc' = "failed"
             /\ fs' = fs
             /\ build_conf'.git_sha1_prefix = ""
             /\ get_llvm_build_parent_dir(build_conf') = get_llvm_build_parent_dir(build_conf)]_vars

\* the configuration was constructed
Constructed == pc \notin {"parse_args", "config_error"}

\* the run was given the directory install_parent_dir/yb-llvm-<tag>-build and
\* the tag, the build-parent directory and the final install directory are
\* the ones parsed back from that name, before and after a revision is bound,
\* so that the run passes the build-directory check
RoundTrip(tag) ==
    cli.existing_build_dir =
            PathJoin(DEFAULT_INSTALL_PARENT_DIR,
                     "yb-llvm-" \o tag \o "-build")
        => /\ pc # "config_error"
           /\ Constructed =>
                  /\ get_tag(build_conf) = tag
                  /\ get_tag(set_git_sha1(build_conf, GitSha1)) = tag
                  /\ get_llvm_build_parent_dir(build_conf) = cli.existing_build_dir
                  /\ get_final_install_dir(build_conf)
                         = PathJoin(DEFAULT_INSTALL_PARENT_DIR, "yb-llvm-" \o tag)
                  /\ ~BuildDirMismatch(args, build_conf)

FailedStageCommands ==
    {k \in 1..Len(log) : log[k].stage >= 1 /\ log[k].kind \in {"cmake", "ninja"} /\ ~log[k].ok}

\* the directories build makes for a stage before its first command
StageDirsInPlace(stage) ==
    /\ IsDir(fs, stage.cmake_build_dir)
    /\ IsDir(fs, PathJoin(stage.compiler_invocations_top_dir, BUILD_START_TIMESTAMP_STR))

\* C15: a configure, build or install command of a stage that exits non-zero
\* is the last thing the run does: the run has failed, no command, copy,
\* archive, checksum or release follows it (so nothing is retried and no
\* later stage is built), the directories made for the stage are still
\* there, and an archive or checksum file, if there is one, is the one an
\* earlier run left.
C15_FailFast ==
    \A k \in FailedStageCommands :
        /\ k = Len(log)
        /\ pc = "failed"
        /\ StageDirsInPlace(stages[log[k].stage])
        /\ \A path \in {ArchivePath(args, build_conf), Sha256SumFilePath(args, build_conf)} :
              PathExists(fs, path) =>
                  (path \in FilePaths(fs) /\ fs.files[path].content = EARLIER_ARCHIVE)

C15_Witness ==
    /\ pc = "failed"
    /\ Len(stages) = 4
    /\ log[Len(log)].stage = 2 /\ log[Len(log)].args = <<"install">> /\ ~log[Len(log)].ok
    /\ \E k \in 1..Len(log) : log[k].stage = 1 /\ log[k].args = <<"install">> /\ log[k].ok
    /\ atexit # ""

\* C16: whenever the run is not inside ClangBuildStage.build, before the first
\* stage, between two stages and after a build that returned or raised, the
\* working directory is the one the tool was started in and every
\* BUILD_CLANG_* variable has the value, or the absence, it was started with.
C16_CwdAndEnvRestored ==
    pc # "stage_build" => (cwd = START_DIR /\ env = caller_env)

C16_Witness ==
    /\ pc = "failed"
    /\ build_conf.use_compiler_wrapper
    /\ caller_env["BUILD_CLANG_UNDERLYING_C_COMPILER"] # ""
    /\ log[Len(log)].stage = 2 /\ ~log[Len(log)].ok
    /\ cwd = START_DIR /\ env = caller_env

\* positions in stage_list of the stages whose install_prefix is final_dir
FinalPrefixStages(stage_list, final_dir) ==
    {i \in 1..Len(stage_list) : stage_list[i].install_prefix = final_dir}

\* C17: among the constructed stages exactly one has the final install
\* directory as install_prefix, and it is stage 3, the last ordinary stage;
\* every other stage, the LTO stage included, has
\* <build-parent>/stage-<n>/installed; no stage is both the last ordinary
\* stage and the LTO stage.
C17_OneFinalStage ==
    stages # <<>> =>
        LET parent_dir == get_llvm_build_parent_dir(build_conf)
            final == FinalPrefixStages(stages, get_final_install_dir(build_conf))
        IN /\ Cardinality(final) = 1
           /\ \A i \in 1..Len(stages) :
                 /\ i \in final <=>
                       (stages[i].stage_number = NUM_NON_LTO_STAGES /\ ~stages[i].lto)
                 /\ i \in final <=> stages[i].is_last_non_lto_stage
                 /\ i \notin final =>
                       stages[i].install_prefix =
                           parent_dir \o "/stage-" \o ToString(stages[i].stage_number)
                               \o "/installed"
                 /\ ~(stages[i].is_last_non_lto_stage /\ stages[i].lto)

C17_Witness ==
    /\ Len(stages) = 4
    /\ stages[3].install_prefix = get_final_install_dir(build_conf)
    /\ stages[4].lto
    /\ stages[4].install_prefix =
           get_llvm_build_parent_dir(build_conf) \o "/stage-4/installed"
    /\ stages[1].install_prefix =
           get_llvm_build_parent_dir(build_conf) \o "/stage-1/installed"

\* C18: in a run with --skip_auto_suffix and without --existing_build_dir the
\* tag of the configuration is 'v' + version, as the run holds it and also
\* once a revision is bound to it, whatever the compiler-rt flag, the
\* --top_dir_suffix value, the OS and the architecture are.
C18_SkipAutoSuffixTag ==
    (Constructed /\ cli.skip_auto_suffix /\ cli.existing_build_dir = "") =>
        /\ get_tag(build_conf) = "v" \o cli.llvm_version
        /\ get_tag(set_git_sha1(build_conf, GitSha1)) = "v" \o cli.llvm_version

C18_Witness ==
    /\ pc = "stages_done"
    /\ cli.skip_auto_suffix /\ cli.existing_build_dir = ""
    /\ cli.no_compiler_rt /\ cli.top_dir_suffix = "dbg"
    /\ platform.short_os = "amzn2" /\ platform.arch = "aarch64"
    /\ cli.llvm_version = "18.1.8-yb-1"
    /\ get_tag(build_conf) = "v18.1.8-yb-1"
    /\ get_tag(set_git_sha1(build_conf, GitSha1)) = "v18.1.8-yb-1"

\* the tag written out component by component for the run's command line and
\* platform, with the given revision component
AutoSuffixTag(revision) ==
    "v" \o cli.llvm_version
        \o "-" \o UNIX_TIMESTAMP
        \o "-" \o revision
        \o (IF cli.no_compiler_rt THEN "-no-compiler-rt" ELSE "")
        \o (IF cli.top_dir_suffix # "" THEN "-" \o cli.top_dir_suffix ELSE "")
        \o "-" \o platform.short_os
        \o "-" \o platform.arch

\* `part in path` for a path below top_dir: part lies within top_dir, or
\* within the rest of the path together with the Len(part) - 1 characters
\* before it
ContainsBelow(path, top_dir, top_dir_contains, part) ==
    \/ top_dir_contains
    \/ Contains(SubSeq(path, Len(top_dir) - Len(part) + 2, Len(path)), part)

\* the paths derived from the configuration and the paths of the stages
DerivedPaths ==
    { get_llvm_build_parent_dir(build_conf), get_final_install_dir(build_conf),
      get_llvm_build_info_dir(build_conf), get_llvm_project_clone_dir(build_conf) }
    \cup UNION { { stages[i].stage_base_dir, stages[i].cmake_build_dir,
                   stages[i].compiler_invocations_top_dir, stages[i].install_prefix }
                 : i \in 1..Len(stages) }

\* C19: with auto-suffixing on, the tag is 'v' + version followed by
\* timestamp, revision, 'no-compiler-rt' (only without compiler-rt), user
\* suffix (only when given), OS and architecture, joined by '-' in this
\* order; the revision is the placeholder token until set_git_sha1 and the
\* first 8 characters of the revision afterwards, and from then on no path
\* derived from the configuration contains the placeholder token.
C19_AutoSuffixTag ==
    (Constructed /\ ~cli.skip_auto_suffix /\ cli.existing_build_dir = "") =>
        IF build_conf.git_sha1_prefix = ""
        THEN get_tag(build_conf) = AutoSuffixTag(GIT_SHA1_PLACEHOLDER_STR)
        ELSE /\ get_tag(build_conf) = AutoSuffixTag("abcdef12")
             /\ LET final_install_dir == get_final_install_dir(build_conf)
                    in_final_install_dir ==
                        Contains(final_install_dir, GIT_SHA1_PLACEHOLDER_STR)
                IN \A path \in DerivedPaths :
                       /\ StartsWith(path, final_install_dir)
                       /\ ~ContainsBelow(path, final_install_dir, in_final_install_dir,
                                         GIT_SHA1_PLACEHOLDER_STR)

C19_Witness ==
    /\ pc = "stages_done"
    /\ ~cli.skip_auto_suffix /\ cli.existing_build_dir = ""
    /\ cli.no_compiler_rt /\ cli.top_dir_suffix = "dbg"
    /\ platform.short_os = "amzn2"
    /\ get_tag(build_conf) =
           "v18.1.8-yb-1-1700000000-abcdef12-no-compiler-rt-dbg-amzn2-aarch64"
    /\ stages[1].install_prefix =
           "/opt/yb-build/llvm/yb-llvm-v18.1.8-yb-1-1700000000-abcdef12-no-compiler-rt-dbg-amzn2-aarch64-build/stage-1/installed"

\* a basename of the shape 'yb-llvm-<non-empty tag>-build'
ExpectedShape(build_dir_basename) ==
    /\ StartsWith(build_dir_basename, YB_LLVM_ARCHIVE_NAME_PREFIX)
    /\ EndsWith(build_dir_basename, BUILD_DIR_SUFFIX_WITH_SEPARATOR)
    /\ Len(build_dir_basename) >
           Len(YB_LLVM_ARCHIVE_NAME_PREFIX) + Len(BUILD_DIR_SUFFIX_WITH_SEPARATOR)

\* C20: when the basename of --existing_build_dir is not of the shape
\* 'yb-llvm-<non-empty tag>-build', constructing the configuration fails with
\* an error that names the basename, and no configuration with a tag
\* computed from version and flags comes to exist.
C20_MalformedExistingDirRejected ==
    ( /\ pc # "parse_args"
      /\ cli.existing_build_dir # ""
      /\ ~ExpectedShape(Basename(cli.existing_build_dir)) ) =>
        /\ pc = "config_error"
        /\ build_conf = NotConstructed
        /\ Contains(parse_args(cli).error,
                    "'" \o Basename(cli.existing_build_dir) \o "'")

\* positions of the log entries of one kind
EntriesOfKind(kind) == {k \in 1..Len(log) : log[k].kind = kind}

ChecksumEntries == EntriesOfKind("sha256sum") \cup EntriesOfKind("shasum")

\* the archive and the checksum file have been dealt with: the run is at the
\* upload step or past it
Packaged ==
    \/ pc \in {"upload", "done"}
    \/ (pc = "failed" /\ log # <<>> /\ log[Len(log)].kind = "hub_release")

\* C21: once packaging is through, <name>.tar.gz and <name>.tar.gz.sha256 exist
\* next to the final install directory and the checksum file was written from
\* the archive as it is now; the archive is the one of the earlier run exactly
\* when no tar command ran, which takes --reuse_tarball, and with
\* --reuse_tarball no archive is removed; a removal is followed by the tar
\* command whether it failed or not; exactly one checksum command ran, on
\* the archive, after the tar command.
C21_ArchiveAndChecksum ==
    /\ \A k \in EntriesOfKind("remove") :
          /\ k < Len(log) /\ log[k + 1].kind = "tar"
          /\ ~args.reuse_tarball
    /\ Cardinality(EntriesOfKind("tar")) <= 1
    /\ Packaged =>
          LET final_install_dir == FinalInstallDir(args, build_conf)
              archive_path == final_install_dir \o ".tar.gz"
              sha256sum_file_path == final_install_dir \o ".tar.gz.sha256"
          IN /\ archive_path \in FilePaths(fs)
             /\ sha256sum_file_path \in FilePaths(fs)
             /\ fs.files[sha256sum_file_path].content = fs.files[archive_path].content
             /\ fs.files[archive_path].content = EARLIER_ARCHIVE <=> EntriesOfKind("tar") = {}
             /\ fs.files[archive_path].content = EARLIER_ARCHIVE => args.reuse_tarball
             /\ \E c \in ChecksumEntries :
                   /\ ChecksumEntries = {c}
                   /\ log[c].ok /\ log[c].args = <<archive_path>>
                   /\ \A t \in EntriesOfKind("tar") : t < c /\ log[t].ok

C21_Witness ==
    /\ pc = "done"
    /\ \E k \in EntriesOfKind("remove") : ~log[k].ok /\ log[k + 1].kind = "tar" /\ log[k + 1].ok
    /\ fs.files[ArchivePath(args, build_conf)].content = 0
    /\ fs.files[Sha256SumFilePath(args, build_conf)].content = 0

\* C22: a release command runs at most once and only without --skip_upload;
\* a run that ends well without --skip_upload has run it; when it runs, the
\* archive and the checksum file exist and the checksum command has
\* succeeded; its tag is the basename of the final install directory without
\* 'yb-llvm-', which for a build of this run is the tag of the configuration
\* and never holds the placeholder token; it attaches the archive and the
\* checksum file and nothing else.
C22_ReleaseAfterPackaging ==
    /\ Cardinality(EntriesOfKind("hub_release")) <= 1
    /\ pc = "done" => (EntriesOfKind("hub_release") # {} <=> ~args.skip_upload)
    /\ \A k \in EntriesOfKind("hub_release") :
          LET final_install_dir == FinalInstallDir(args, build_conf)
              tag == log[k].args[1]
          IN /\ ~args.skip_upload
             /\ \E c \in ChecksumEntries : c < k /\ log[c].ok
             /\ {final_install_dir \o ".tar.gz", final_install_dir \o ".tar.gz.sha256"}
                    \subseteq FilePaths(fs)
             /\ YB_LLVM_ARCHIVE_NAME_PREFIX \o tag = Basename(final_install_dir)
             /\ args.upload_earlier_build = "" => tag = get_tag(build_conf)
             /\ ~Contains(tag, GIT_SHA1_PLACEHOLDER_STR)
             /\ SubSeq(log[k].args, 2, Len(log[k].args)) =
                    << final_install_dir \o ".tar.gz", final_install_dir \o ".tar.gz.sha256" >>

C22_Witness ==
    /\ pc = "done"
    /\ \E k \in EntriesOfKind("hub_release") :
          /\ log[k].ok
          /\ log[k].args[1] = "v18.1.8-yb-1-1700000000-abcdef12-almalinux8-x86_64"
          /\ \E t \in EntriesOfKind("tar") : t < k

\* the alternate layout is present below the final install directory: the one
\* runtime-library directory has its 'linux' sibling, which holds the link
\* named for the architecture of every library file
AlternateLayoutPresent(f, conf, final_install_dir) ==
    /\ Cardinality(ExistingPrefixDirs(f, conf, final_install_dir)) = 1
    /\ LET common_dir_prefix == CHOOSE d \in ExistingPrefixDirs(f, conf, final_install_dir) : TRUE
           library_files ==
               LibraryFiles(f, PathJoin(common_dir_prefix, platform.arch \o "-unknown-linux-gnu"))
       IN /\ library_files # {}
          /\ \A p \in library_files :
                PathJoin(PathJoin(common_dir_prefix, "linux"), LinkName(Basename(p)))
                    \in FilePaths(f)

\* C23: the call of create_clang_rt_builtins_symlinks changes nothing and the
\* run goes on to the archive, when the platform is not Linux and also when,
\* on Linux, the alternate layout with its links is already present.
C23_SymlinksIdempotent ==
    [][(/\ pc = "stages_done"
        /\ \/ ~is_linux
           \/ AlternateLayoutPresent(fs, build_conf, FinalInstallDir(args, build_conf)))
       => (pc' = "archive" /\ fs' = fs)]_vars

\* the compilers the claim gives stage n: the system compilers for stage 1,
\* and bin/clang, bin/clang++ below the install prefix of stage n - 1 after it
ExpectedCompilers(n) ==
    IF n = 1 THEN find_latest_gcc
    ELSE << stages[n - 1].install_prefix \o "/bin/clang",
            stages[n - 1].install_prefix \o "/bin/clang++" >>

\* C24: the configure step of stage 1 is given compilers outside the install
\* parent directory, and that of every later stage bin/clang and bin/clang++
\* below the install prefix of the stage before it, which for the LTO stage
\* is the final install directory; with the compiler wrapper the configure
\* step is given the two wrapper scripts instead and, while the stage is
\* built, the environment names the same pair as the underlying compilers.
C24_StageCompilers ==
    /\ \A k \in CmakeEntries :
          LET n == log[k].stage
              given == << log[k].vars["CMAKE_C_COMPILER"], log[k].vars["CMAKE_CXX_COMPILER"] >>
          IN /\ n = 1 => \A i \in 1..2 :
                            ~IsUnder(ExpectedCompilers(1)[i], build_conf.install_parent_dir)
             /\ stages[n].lto =>
                   ExpectedCompilers(n)[1] = get_final_install_dir(build_conf) \o "/bin/clang"
             /\ IF build_conf.use_compiler_wrapper
                THEN given = << <<COMPILER_WRAPPER_BASE_DIR \o "/compiler_wrapper_cc.py">>,
                                <<COMPILER_WRAPPER_BASE_DIR \o "/compiler_wrapper_cxx.py">> >>
                ELSE given = << <<ExpectedCompilers(n)[1]>>, <<ExpectedCompilers(n)[2]>> >>
    /\ (pc = "stage_build" /\ build_conf.use_compiler_wrapper) =>
          /\ env["BUILD_CLANG_UNDERLYING_C_COMPILER"] = ExpectedCompilers(idx)[1]
          /\ env["BUILD_CLANG_UNDERLYING_CXX_COMPILER"] = ExpectedCompilers(idx)[2]

C24_Witness ==
    /\ pc = "stage_build" /\ stages[idx].lto /\ build_conf.use_compiler_wrapper
    /\ env["BUILD_CLANG_UNDERLYING_CXX_COMPILER"] =
           get_final_install_dir(build_conf) \o "/bin/clang++"
    /\ \E k \in CmakeEntries :
          /\ log[k].stage = idx
          /\ log[k].vars["CMAKE_C_COMPILER"] =
                 <<COMPILER_WRAPPER_BASE_DIR \o "/compiler_wrapper_cc.py">>
    /\ \E k \in CmakeEntries : log[k].stage = 1

\* the external steps of stage n made so far, in the order they were made
ExternalSteps(n) ==
    SelectSeq(log, LAMBDA e : e.stage = n /\ e.kind # "validate_build_output_arch")

\* one external step: its kind and its arguments
ClaimedStep(kind, step_args) == [kind |-> kind, args |-> step_args]

\* the ninja steps of a sequence of targets, one target each
RECURSIVE ClaimedTargetSteps(_)
ClaimedTargetSteps(targets) ==
    IF targets = <<>> THEN <<>>
    ELSE <<ClaimedStep("ninja", <<Head(targets)>>)>> \o ClaimedTargetSteps(Tail(targets))

\* the order of the external steps of the ordinary stage n
ClaimedSteps(n) ==
    <<ClaimedStep("cmake", <<>>)>>
    \o ClaimedTargetSteps(ClaimedTargets(n))
    \o <<ClaimedStep("ninja", <<>>)>>
    \o (IF n = NUM_NON_LTO_STAGES
        THEN ClaimedTargetSteps(<<"clangd", "clangd-indexer">>) ELSE <<>>)
    \o <<ClaimedStep("ninja", <<"install">>)>>
    \o (IF n = NUM_NON_LTO_STAGES
        THEN << ClaimedStep("install_binary_to_final_dir", <<"clangd-indexer">>),
                ClaimedStep("copy_build_info", <<"CMakeCache.txt">>),
                ClaimedStep("copy_build_info", <<"compile_commands.json">>) >>
        ELSE <<>>)

\* C25: the external steps of an ordinary stage are, in this order and once
\* each, cmake, the explicit targets one by one, the default full build, on
\* the final ordinary stage the targets clangd and clangd-indexer, and
\* `ninja install`; the copies of clangd-indexer into the final install
\* directory and of CMakeCache.txt and compile_commands.json into the
\* build-info directory are made on the final ordinary stage only, after
\* `ninja install`, and each step is made only after the one before it
\* succeeded.
C25_OrdinaryStageStepOrder ==
    \A n \in 1..Len(stages) :
        ~stages[n].lto =>
            LET made == ExternalSteps(n)
                claimed == ClaimedSteps(n)
            IN /\ Len(made) <= Len(claimed)
               /\ \A i \in 1..Len(made) :
                      /\ made[i].kind = claimed[i].kind
                      /\ made[i].args = claimed[i].args
                      /\ i > 1 => made[i - 1].ok
                      /\ (made[i].kind = "install_binary_to_final_dir" /\ made[i].ok) =>
                             LET dst_path == PathJoin(get_final_install_dir(build_conf),
                                                      "bin/clangd-indexer")
                             IN dst_path \in FilePaths(fs) /\ fs.files[dst_path].content = n
                      /\ (made[i].kind = "copy_build_info" /\ made[i].ok) =>
                             LET dst_path == PathJoin(get_llvm_build_info_dir(build_conf),
                                                      made[i].args[1])
                             IN dst_path \in FilePaths(fs) /\ fs.files[dst_path].content = n

C25_Witness ==
    /\ pc = "stage_loop" /\ idx = NUM_NON_LTO_STAGES + 1
    /\ build_conf.llvm_major_version >= 16
    /\ \A n \in 2..NUM_NON_LTO_STAGES :
           /\ Len(ExternalSteps(n)) = Len(ClaimedSteps(n))
           /\ ExternalSteps(n)[Len(ExternalSteps(n))].ok
    /\ Len(ExternalSteps(2)) = 7 /\ Len(ExternalSteps(3)) = 12
    /\ ExternalSteps(3)[9].args = <<"install">>

\* the ninja commands of the LTO stage made so far
LtoNinjaEntries ==
    {k \in 1..Len(log) : log[k].kind = "ninja" /\ log[k].stage # 0 /\ stages[log[k].stage].lto}

\* C26: every ninja command of the LTO stage names only the targets clang
\* and lld: none names a runtime-library target (cxxabi, compiler-rt, cxx)
\* and none is the default full build or `ninja install`.
C26_LtoStageBuildsClangAndLldOnly ==
    \A k \in LtoNinjaEntries :
        /\ log[k].args # <<>>
        /\ \A i \in 1..Len(log[k].args) : log[k].args[i] \in {"clang", "lld"}

\* the three linker-flag options of a configure step
LinkerFlagOptions ==
    {"CMAKE_SHARED_LINKER_FLAGS_INIT", "CMAKE_MODULE_LINKER_FLAGS_INIT",
     "CMAKE_EXE_LINKER_FLAGS_INIT"}

\* the rpath entries among the linker flags
RpathEntries(flags) ==
    {flags[i] : i \in {j \in 1..Len(flags) : StartsWith(flags[j], "-Wl,-rpath=")}}

\* the rpath entry of the stage's own library directory
OwnLibDirRpath == "-Wl,-rpath=\\$ORIGIN/../lib/" \o platform.arch \o "-unknown-linux-gnu"

\* the rpath entry of the library directory of the stage before stage n
PredecessorLibDirRpath(n) ==
    "-Wl,-rpath=" \o stages[n - 1].install_prefix
        \o "/lib/" \o platform.arch \o "-unknown-linux-gnu"

\* the configure steps of the stages numbered from_stage and above, on Linux
LinuxCmakeEntriesFrom(from_stage) ==
    {k \in CmakeEntries : platform.os = "linux" /\ log[k].stage >= from_stage}

\* C27 as stated: on Linux the three linker-flag options of every stage
\* numbered 2 or more hold the rpath entry of the stage's own library
\* directory from version 15 on, also that of the predecessor's library
\* directory from version 16 on, and no rpath entry below version 15.
C27_RpathFromStageTwo ==
    \A k \in LinuxCmakeEntriesFrom(2) : \A option \in LinkerFlagOptions :
        LET entries == RpathEntries(log[k].vars[option])
            major == build_conf.llvm_major_version
        IN /\ major >= 15 => OwnLibDirRpath \in entries
           /\ major >= 16 => PredecessorLibDirRpath(log[k].stage) \in entries
           /\ major < 15 => entries = {}

\* C27, amended: what C27 states holds of every stage numbered 3 or more,
\* with no other rpath entry, and stage 2 is given no rpath entry.
C27_RpathFromStageThree ==
    \A k \in LinuxCmakeEntriesFrom(2) : \A option \in LinkerFlagOptions :
        LET entries == RpathEntries(log[k].vars[option])
            major == build_conf.llvm_major_version
        IN entries = IF log[k].stage = 2 \/ major < 15 THEN {}
                     ELSE IF major = 15 THEN {OwnLibDirRpath}
                     ELSE {OwnLibDirRpath, PredecessorLibDirRpath(log[k].stage)}

C27_Witness ==
    /\ Constructed
    /\ build_conf.llvm_major_version >= 16 /\ platform.arch = "aarch64"
    /\ \E k \in LinuxCmakeEntriesFrom(2) : log[k].stage = 2
    /\ \E k \in LinuxCmakeEntriesFrom(2) :
           /\ log[k].stage = 3
           /\ RpathEntries(log[k].vars["CMAKE_EXE_LINKER_FLAGS_INIT"]) =
                  { "-Wl,-rpath=\\$ORIGIN/../lib/aarch64-unknown-linux-gnu",
                    "-Wl,-rpath=" \o stages[2].install_prefix
                        \o "/lib/aarch64-unknown-linux-gnu" }
    /\ \E k \in LinuxCmakeEntriesFrom(2) : stages[log[k].stage].lto

\* the elements of a sequence
Elements(seq) == {seq[i] : i \in 1..Len(seq)}

\* C28: clang-tools-extra is among the enabled projects of a configure step
\* iff the stage is the final ordinary stage; lldb is among them iff moreover
\* the major version is at least 10 and not at least 13 on macOS;
\* LLVM_BUILD_TESTS is ON iff the stage is the final ordinary stage, and is
\* absent otherwise.
C28_DeveloperToolingOnFinalStage ==
    \A k \in CmakeEntries :
        LET final_ordinary == log[k].stage = NUM_NON_LTO_STAGES
            major == build_conf.llvm_major_version
            projects == Elements(log[k].vars["LLVM_ENABLE_PROJECTS"])
        IN /\ "clang-tools-extra" \in projects <=> final_ordinary
           /\ "lldb" \in projects <=>
                  (final_ordinary /\ major >= 10 /\ ~(major >= 13 /\ platform.os = "macos"))
           /\ OptionIff(log[k].vars, "LLVM_BUILD_TESTS", <<"ON">>, final_ordinary)

C28_Witness ==
    /\ Constructed
    /\ platform.os = "macos" /\ build_conf.llvm_major_version >= 13
    /\ \E k \in CmakeEntries :
           /\ log[k].stage = NUM_NON_LTO_STAGES
           /\ "clang-tools-extra" \in Elements(log[k].vars["LLVM_ENABLE_PROJECTS"])
           /\ "lldb" \notin Elements(log[k].vars["LLVM_ENABLE_PROJECTS"])
           /\ log[k].vars["LLVM_BUILD_TESTS"] = <<"ON">>
    /\ \E k \in CmakeEntries :
           /\ stages[log[k].stage].lto
           /\ "LLVM_BUILD_TESTS" \notin DOMAIN log[k].vars
    /\ \E k \in CmakeEntries : log[k].stage = 1

\* the three paths of a stage that C29 names
StagePaths(stage) == {stage.stage_base_dir, stage.cmake_build_dir, stage.install_prefix}

FreshRunResolved ==
    /\ Constructed
    /\ cli.existing_build_dir = "" /\ cli.upload_earlier_build = "" /\ ~cli.skip_auto_suffix
    /\ \E k \in RenameEntries : log[k].ok

\* C30: in a fresh run with auto-suffixing, once the build-parent directory
\* has been renamed, no directory and no file below the install-parent
\* directory has the placeholder token in its path.
C30_NoPlaceholderDirRemains ==
    FreshRunResolved =>
        \A path \in fs.dirs \cup FilePaths(fs) :
            IsUnder(path, build_conf.install_parent_dir) =>
                ~Contains(path, GIT_SHA1_PLACEHOLDER_STR)

====
